---- MODULE Spec2Model ----
(***************************************************************************)
(* nesdis: a static disassembler for NES (6502) cartridges.                *)
(*                                                                         *)
(* The module models the label allocator (labeller.rs), the instruction    *)
(* decoder (instruction.rs) and the traversal driver (cartridge.rs), and   *)
(* states the properties of the written specification against them.        *)
(*                                                                         *)
(* Three specifications share the variables:                               *)
(*   Spec     - a whole session: Cartridge::disassemble on a loaded ROM,   *)
(*              then Cartridge::print_disassembly                          *)
(*   LabSpec  - arbitrary sequences of label requests on one Labeller,     *)
(*              then the label lookups of print_disassembly                *)
(*   DecSpec  - one call of disassemble_instruction on a byte window       *)
(***************************************************************************)
EXTENDS Integers, Sequences, FiniteSets, TLC

VARIABLES
    mapper_id,            \* Cartridge.mapper_id
    prg_rom_bank_count,   \* Cartridge.prg_rom_bank_count
    prg_rom_contents,     \* Cartridge.prg_rom_contents (Vec<u8>), see RomByte
    global_labels,        \* Cartridge.global_labels : HashMap<usize, String>
    labeller,             \* Cartridge.labeller : Labeller
    text_lines,           \* Cartridge.text_lines : HashMap<usize, TextLine>
    entry_points,         \* local Vec<usize> of disassemble_from_entry_point
    current_address,      \* local cursor of disassemble_from_entry_point
    contents_offset,      \* argument of the decode call under DecSpec
    pc,                   \* position of the program
    ret,                  \* value returned by the last call
    decode_calls,         \* history: the decode calls that returned, in order
    requests,             \* history: the label requests made, in order
    stdout                \* the lines print_disassembly has written

vars == <<mapper_id, prg_rom_bank_count, prg_rom_contents, global_labels,
          labeller, text_lines, entry_points, current_address,
          contents_offset, pc, ret, decode_calls, requests, stdout>>

---------------------------------------------------------------------------
(* Bounds of the model *)

\* number of ROM bytes, from offset 0, that Init draws freely
CodeLen == 3

\* number of label requests a LabSpec behaviour makes
MaxRequests == 4

---------------------------------------------------------------------------
(* Program constants *)

PrgBankSize == 16384        \* cartridge.rs:43
MappingBase == 32768        \* 0x8000, cartridge.rs:109
VectorsBaseTwoBanks == 32762  \* 0x7FFA, cartridge.rs:75
VectorsBaseOneBank == 16378   \* 0x3FFA, cartridge.rs:75
U16 == 65536                \* width of u16 (create_u16, calculate_target_address)

BRANCH_LABEL_PREFIX == "branch_target"
JUMP_LABEL_PREFIX_AsBranch == "branch_target"
JUMP_LABEL_PREFIX == "jump_target"
SUBROUTINE_LABEL_PREFIX == "subroutine"

---------------------------------------------------------------------------
(* Option<T> and HashMap<K, V> *)

None == << >>
Some(x) == <<x>>

EmptyMap == [k \in {} |-> None]

MapInsert_DroppingTheRest(m, k, v) == [x \in {k} |-> v]

\* HashMap::insert: the value of an existing key is replaced
MapInsert(m, k, v) == [x \in (DOMAIN m) \cup {k} |-> IF x = k THEN v ELSE m[x]]

\* HashMap::get
MapGet(m, k) == IF k \in DOMAIN m THEN Some(m[k]) ELSE None

---------------------------------------------------------------------------
(* Number formatting: format!("{:0wX}") and format!("{}") of a usize *)

HexDigit == <<"0", "1", "2", "3", "4", "5", "6", "7",
              "8", "9", "A", "B", "C", "D", "E", "F">>

RECURSIVE FormatHex(_, _)
FormatHex(n, width) ==
    (IF n >= 16 \/ width > 1 THEN FormatHex(n \div 16, width - 1) ELSE "")
        \o HexDigit[(n % 16) + 1]

FormatDec(n) == ToString(n)

---------------------------------------------------------------------------
(* labeller.rs *)

\* Labeller::new
LabellerNew ==
    [ next_branch_target_id |-> 0,
      next_jump_target_id |-> 0,
      next_subroutine_id |-> 0,
      branch_targets_to_labels |-> EmptyMap,
      jump_targets_to_labels |-> EmptyMap,
      subroutines_to_labels |-> EmptyMap ]

\* Each request returns the label and the Labeller after the call.
request_label_for_branch_target_NoLookup(l, address) ==
    LET label_id == l.next_branch_target_id
        label == BRANCH_LABEL_PREFIX \o "_" \o FormatDec(label_id)
    IN  [label |-> label,
         labeller |->
           [l EXCEPT !.next_branch_target_id = label_id + 1,
                     !.branch_targets_to_labels = MapInsert(@, address, label)]]

request_label_for_branch_target(l, address) ==
    IF address \in DOMAIN l.branch_targets_to_labels
    THEN [label |-> l.branch_targets_to_labels[address], labeller |-> l]
    ELSE LET label_id == l.next_branch_target_id
             label == BRANCH_LABEL_PREFIX \o "_" \o FormatDec(label_id)
         IN  [label |-> label,
              labeller |->
                [l EXCEPT !.next_branch_target_id = label_id + 1,
                          !.branch_targets_to_labels =
                              MapInsert(@, address, label)]]

request_label_for_jump_target_BranchCounter(l, address) ==
    IF address \in DOMAIN l.jump_targets_to_labels
    THEN [label |-> l.jump_targets_to_labels[address], labeller |-> l]
    ELSE LET label_id == l.next_branch_target_id
             label == JUMP_LABEL_PREFIX \o "_" \o FormatDec(label_id)
         IN  [label |-> label,
              labeller |->
                [l EXCEPT !.next_branch_target_id = label_id + 1,
                          !.jump_targets_to_labels =
                              MapInsert(@, address, label)]]

request_label_for_jump_target(l, address) ==
    IF address \in DOMAIN l.jump_targets_to_labels
    THEN [label |-> l.jump_targets_to_labels[address], labeller |-> l]
    ELSE LET label_id == l.next_jump_target_id
             label == JUMP_LABEL_PREFIX \o "_" \o FormatDec(label_id)
         IN  [label |-> label,
              labeller |->
                [l EXCEPT !.next_jump_target_id = label_id + 1,
                          !.jump_targets_to_labels =
                              MapInsert(@, address, label)]]

request_label_for_subroutine_IntoJumpTargets(l, address) ==
    IF address \in DOMAIN l.jump_targets_to_labels
    THEN [label |-> l.jump_targets_to_labels[address], labeller |-> l]
    ELSE LET label_id == l.next_subroutine_id
             label == SUBROUTINE_LABEL_PREFIX \o "_" \o FormatDec(label_id)
         IN  [label |-> label,
              labeller |->
                [l EXCEPT !.next_subroutine_id = label_id + 1,
                          !.jump_targets_to_labels =
                              MapInsert(@, address, label)]]

request_label_for_subroutine(l, address) ==
    IF address \in DOMAIN l.subroutines_to_labels
    THEN [label |-> l.subroutines_to_labels[address], labeller |-> l]
    ELSE LET label_id == l.next_subroutine_id
             label == SUBROUTINE_LABEL_PREFIX \o "_" \o FormatDec(label_id)
         IN  [label |-> label,
              labeller |->
                [l EXCEPT !.next_subroutine_id = label_id + 1,
                          !.subroutines_to_labels =
                              MapInsert(@, address, label)]]

get_branch_target_label(l, address) == MapGet(l.branch_targets_to_labels, address)
get_jump_target_label_FromBranchTargets(l, address) ==
    MapGet(l.branch_targets_to_labels, address)

get_jump_target_label(l, address) == MapGet(l.jump_targets_to_labels, address)
get_subroutine_label(l, address) == MapGet(l.subroutines_to_labels, address)

---------------------------------------------------------------------------
(* The program ROM.  A Vec<u8> of len bytes is held as the bytes at the    *)
(* offsets of patch and the byte fill at every other offset below len.     *)

RomLen(rom) == rom.len

RomByte(rom, i) == IF i \in DOMAIN rom.patch THEN rom.patch[i] ELSE rom.fill

\* prg_rom_contents[i] panics unless i < len
IndexInBounds(rom, i) == 0 <= i /\ i < RomLen(rom)

---------------------------------------------------------------------------
(* instruction.rs *)

create_u16(low_byte, high_byte) == (high_byte * 256) + low_byte

\* (signed_offset as i8) as i16 as u16
SignExtendU8ToU16(signed_offset) ==
    LET as_i8 == IF signed_offset >= 128 THEN signed_offset - 256 ELSE signed_offset
    IN  as_i8 % U16

calculate_target_address_NoSignExtension(address, signed_offset) ==
    (address + signed_offset) % U16

calculate_target_address(address, signed_offset) ==
    LET sign_extended_offset == SignExtendU8ToU16(signed_offset)
    IN  (address + sign_extended_offset) % U16

format_absolute_address_AlwaysHex(address) == "$" \o FormatHex(address, 4)

format_absolute_address(address) ==
    CASE address = 8192 -> "PpuControl_2000"
      [] address = 8193 -> "PpuMask_2001"
      [] address = 8194 -> "PpuStatus_2002"
      [] address = 8195 -> "OamAddr_2003"
      [] address = 8196 -> "OamData_2004"
      [] address = 8197 -> "PpuScroll_2005"
      [] address = 8198 -> "PpuAddr_2006"
      [] address = 8199 -> "PpuData_2007"
      [] address = 16384 -> "Sq0Duty_4000"
      [] address = 16385 -> "Sq0Sweep_4001"
      [] address = 16386 -> "Sq0Timer_4002"
      [] address = 16387 -> "Sq0Length_4003"
      [] address = 16388 -> "Sq1Duty_4004"
      [] address = 16389 -> "Sq1Sweep_4005"
      [] address = 16390 -> "Sq1Timer_4006"
      [] address = 16391 -> "Sq1Length_4007"
      [] address = 16392 -> "TrgLinear_4008"
      [] address = 16394 -> "TrgTimer_400A"
      [] address = 16395 -> "TrgLength_400B"
      [] address = 16396 -> "NoiseVolume_400C"
      [] address = 16398 -> "NoisePeriod_400E"
      [] address = 16399 -> "NoiseLength_400F"
      [] address = 16400 -> "DmcFreq_4010"
      [] address = 16401 -> "DmcCounter_4011"
      [] address = 16402 -> "DmcAddress_4012"
      [] address = 16403 -> "DmcLength_4013"
      [] address = 16404 -> "SpriteDma_4014"
      [] address = 16405 -> "ApuStatus_4015"
      [] address = 16406 -> "Ctrl1_4016"
      [] address = 16407 -> "Ctrl2_FrameCtr_4017"
      [] OTHER -> "$" \o FormatHex(address, 4)

\* The arms of the opcode match: the byte count, the format string split at
\* its operand, the is_section_complete assignment and the label request.
InstructionArm(opcode) ==
    CASE opcode = 0 -> [bytes |-> 1, pre |-> "BRK", operand |-> "none", post |-> "", complete |-> FALSE, request |-> "none"]  \* 0x00
      [] opcode = 1 -> [bytes |-> 2, pre |-> "ORA (", operand |-> "operand1_formatted", post |-> ",X)", complete |-> FALSE, request |-> "none"]  \* 0x01
      [] opcode = 5 -> [bytes |-> 2, pre |-> "ORA ", operand |-> "operand1_formatted", post |-> "", complete |-> FALSE, request |-> "none"]  \* 0x05
      [] opcode = 6 -> [bytes |-> 2, pre |-> "ASL ", operand |-> "operand1_formatted", post |-> "", complete |-> FALSE, request |-> "none"]  \* 0x06
      [] opcode = 8 -> [bytes |-> 1, pre |-> "PHP", operand |-> "none", post |-> "", complete |-> FALSE, request |-> "none"]  \* 0x08
      [] opcode = 9 -> [bytes |-> 2, pre |-> "ORA #", operand |-> "operand1_formatted", post |-> "", complete |-> FALSE, request |-> "none"]  \* 0x09
      [] opcode = 10 -> [bytes |-> 1, pre |-> "ASL A", operand |-> "none", post |-> "", complete |-> FALSE, request |-> "none"]  \* 0x0A
      [] opcode = 13 -> [bytes |-> 3, pre |-> "ORA ", operand |-> "absolute_address_formatted", post |-> "", complete |-> FALSE, request |-> "none"]  \* 0x0D
      [] opcode = 14 -> [bytes |-> 3, pre |-> "ASL ", operand |-> "absolute_address_formatted", post |-> "", complete |-> FALSE, request |-> "none"]  \* 0x0E
      [] opcode = 16 -> [bytes |-> 2, pre |-> "BPL ", operand |-> "label", post |-> "", complete |-> FALSE, request |-> "branch_target"]  \* 0x10
      [] opcode = 17 -> [bytes |-> 2, pre |-> "ORA (", operand |-> "operand1_formatted", post |-> "),Y", complete |-> FALSE, request |-> "none"]  \* 0x11
      [] opcode = 21 -> [bytes |-> 2, pre |-> "ORA ", operand |-> "operand1_formatted", post |-> ",X", complete |-> FALSE, request |-> "none"]  \* 0x15
      [] opcode = 22 -> [bytes |-> 2, pre |-> "ASL ", operand |-> "operand1_formatted", post |-> ",X", complete |-> FALSE, request |-> "none"]  \* 0x16
      [] opcode = 24 -> [bytes |-> 1, pre |-> "CLC", operand |-> "none", post |-> "", complete |-> FALSE, request |-> "none"]  \* 0x18
      [] opcode = 25 -> [bytes |-> 3, pre |-> "ORA ", operand |-> "absolute_address_formatted", post |-> ",Y", complete |-> FALSE, request |-> "none"]  \* 0x19
      [] opcode = 29 -> [bytes |-> 3, pre |-> "ORA ", operand |-> "absolute_address_formatted", post |-> ",X", complete |-> FALSE, request |-> "none"]  \* 0x1D
      [] opcode = 30 -> [bytes |-> 3, pre |-> "ASL ", operand |-> "absolute_address_formatted", post |-> ",X", complete |-> FALSE, request |-> "none"]  \* 0x1E
      [] opcode = 32 -> [bytes |-> 3, pre |-> "JSR ", operand |-> "label", post |-> "", complete |-> FALSE, request |-> "subroutine"]  \* 0x20
      [] opcode = 33 -> [bytes |-> 2, pre |-> "AND (", operand |-> "operand1_formatted", post |-> ",X)", complete |-> FALSE, request |-> "none"]  \* 0x21
      [] opcode = 36 -> [bytes |-> 2, pre |-> "BIT ", operand |-> "operand1_formatted", post |-> "", complete |-> FALSE, request |-> "none"]  \* 0x24
      [] opcode = 37 -> [bytes |-> 2, pre |-> "AND ", operand |-> "operand1_formatted", post |-> "", complete |-> FALSE, request |-> "none"]  \* 0x25
      [] opcode = 38 -> [bytes |-> 2, pre |-> "ROL ", operand |-> "operand1_formatted", post |-> "", complete |-> FALSE, request |-> "none"]  \* 0x26
      [] opcode = 40 -> [bytes |-> 1, pre |-> "PLP", operand |-> "none", post |-> "", complete |-> FALSE, request |-> "none"]  \* 0x28
      [] opcode = 41 -> [bytes |-> 2, pre |-> "AND #", operand |-> "operand1_formatted", post |-> "", complete |-> FALSE, request |-> "none"]  \* 0x29
      [] opcode = 42 -> [bytes |-> 1, pre |-> "ROL A", operand |-> "none", post |-> "", complete |-> FALSE, request |-> "none"]  \* 0x2A
      [] opcode = 44 -> [bytes |-> 3, pre |-> "BIT ", operand |-> "absolute_address_formatted", post |-> "", complete |-> FALSE, request |-> "none"]  \* 0x2C
      [] opcode = 45 -> [bytes |-> 3, pre |-> "AND ", operand |-> "absolute_address_formatted", post |-> "", complete |-> FALSE, request |-> "none"]  \* 0x2D
      [] opcode = 46 -> [bytes |-> 3, pre |-> "ROL ", operand |-> "absolute_address_formatted", post |-> "", complete |-> FALSE, request |-> "none"]  \* 0x2E
      [] opcode = 48 -> [bytes |-> 2, pre |-> "BMI ", operand |-> "label", post |-> "", complete |-> FALSE, request |-> "branch_target"]  \* 0x30
      [] opcode = 49 -> [bytes |-> 2, pre |-> "AND (", operand |-> "operand1_formatted", post |-> "),Y", complete |-> FALSE, request |-> "none"]  \* 0x31
      [] opcode = 53 -> [bytes |-> 2, pre |-> "AND ", operand |-> "operand1_formatted", post |-> ",X", complete |-> FALSE, request |-> "none"]  \* 0x35
      [] opcode = 54 -> [bytes |-> 2, pre |-> "ROL ", operand |-> "operand1_formatted", post |-> ",X", complete |-> FALSE, request |-> "none"]  \* 0x36
      [] opcode = 56 -> [bytes |-> 1, pre |-> "SEC", operand |-> "none", post |-> "", complete |-> FALSE, request |-> "none"]  \* 0x38
      [] opcode = 57 -> [bytes |-> 3, pre |-> "AND ", operand |-> "absolute_address_formatted", post |-> ",Y", complete |-> FALSE, request |-> "none"]  \* 0x39
      [] opcode = 61 -> [bytes |-> 3, pre |-> "AND ", operand |-> "absolute_address_formatted", post |-> ",X", complete |-> FALSE, request |-> "none"]  \* 0x3D
      [] opcode = 62 -> [bytes |-> 3, pre |-> "ROL ", operand |-> "absolute_address_formatted", post |-> ",X", complete |-> FALSE, request |-> "none"]  \* 0x3E
      [] opcode = 64 -> [bytes |-> 1, pre |-> "RTI", operand |-> "none", post |-> "", complete |-> TRUE, request |-> "none"]  \* 0x40
      [] opcode = 65 -> [bytes |-> 2, pre |-> "EOR (", operand |-> "operand1_formatted", post |-> ",X)", complete |-> FALSE, request |-> "none"]  \* 0x41
      [] opcode = 69 -> [bytes |-> 2, pre |-> "EOR ", operand |-> "operand1_formatted", post |-> "", complete |-> FALSE, request |-> "none"]  \* 0x45
      [] opcode = 70 -> [bytes |-> 2, pre |-> "LSR ", operand |-> "operand1_formatted", post |-> "", complete |-> FALSE, request |-> "none"]  \* 0x46
      [] opcode = 72 -> [bytes |-> 1, pre |-> "PHA", operand |-> "none", post |-> "", complete |-> FALSE, request |-> "none"]  \* 0x48
      [] opcode = 73 -> [bytes |-> 2, pre |-> "EOR #", operand |-> "operand1_formatted", post |-> "", complete |-> FALSE, request |-> "none"]  \* 0x49
      [] opcode = 74 -> [bytes |-> 1, pre |-> "LSR A", operand |-> "none", post |-> "", complete |-> FALSE, request |-> "none"]  \* 0x4A
      [] opcode = 76 -> [bytes |-> 3, pre |-> "JMP ", operand |-> "label", post |-> "", complete |-> TRUE, request |-> "jump_target"]  \* 0x4C
      [] opcode = 77 -> [bytes |-> 3, pre |-> "EOR ", operand |-> "absolute_address_formatted", post |-> "", complete |-> FALSE, request |-> "none"]  \* 0x4D
      [] opcode = 78 -> [bytes |-> 3, pre |-> "LSR ", operand |-> "absolute_address_formatted", post |-> "", complete |-> FALSE, request |-> "none"]  \* 0x4E
      [] opcode = 80 -> [bytes |-> 2, pre |-> "BVC ", operand |-> "label", post |-> "", complete |-> FALSE, request |-> "branch_target"]  \* 0x50
      [] opcode = 81 -> [bytes |-> 2, pre |-> "EOR (", operand |-> "operand1_formatted", post |-> "),Y", complete |-> FALSE, request |-> "none"]  \* 0x51
      [] opcode = 85 -> [bytes |-> 2, pre |-> "EOR ", operand |-> "operand1_formatted", post |-> ",X", complete |-> FALSE, request |-> "none"]  \* 0x55
      [] opcode = 86 -> [bytes |-> 2, pre |-> "LSR ", operand |-> "operand1_formatted", post |-> ",X", complete |-> FALSE, request |-> "none"]  \* 0x56
      [] opcode = 88 -> [bytes |-> 1, pre |-> "CLI", operand |-> "none", post |-> "", complete |-> FALSE, request |-> "none"]  \* 0x58
      [] opcode = 89 -> [bytes |-> 3, pre |-> "EOR ", operand |-> "absolute_address_formatted", post |-> ",Y", complete |-> FALSE, request |-> "none"]  \* 0x59
      [] opcode = 93 -> [bytes |-> 3, pre |-> "EOR ", operand |-> "absolute_address_formatted", post |-> ",X", complete |-> FALSE, request |-> "none"]  \* 0x5D
      [] opcode = 94 -> [bytes |-> 3, pre |-> "LSR ", operand |-> "absolute_address_formatted", post |-> ",X", complete |-> FALSE, request |-> "none"]  \* 0x5E
      [] opcode = 96 -> [bytes |-> 1, pre |-> "RTS", operand |-> "none", post |-> "", complete |-> TRUE, request |-> "none"]  \* 0x60
      [] opcode = 97 -> [bytes |-> 2, pre |-> "ADC (", operand |-> "operand1_formatted", post |-> ",X)", complete |-> FALSE, request |-> "none"]  \* 0x61
      [] opcode = 101 -> [bytes |-> 2, pre |-> "ADC ", operand |-> "operand1_formatted", post |-> "", complete |-> FALSE, request |-> "none"]  \* 0x65
      [] opcode = 102 -> [bytes |-> 2, pre |-> "ROR ", operand |-> "operand1_formatted", post |-> "", complete |-> FALSE, request |-> "none"]  \* 0x66
      [] opcode = 104 -> [bytes |-> 1, pre |-> "PLA", operand |-> "none", post |-> "", complete |-> FALSE, request |-> "none"]  \* 0x68
      [] opcode = 105 -> [bytes |-> 2, pre |-> "ADC #", operand |-> "operand1_formatted", post |-> "", complete |-> FALSE, request |-> "none"]  \* 0x69
      [] opcode = 106 -> [bytes |-> 1, pre |-> "ROR A", operand |-> "none", post |-> "", complete |-> FALSE, request |-> "none"]  \* 0x6A
      [] opcode = 108 -> [bytes |-> 3, pre |-> "JMP (", operand |-> "absolute_address_formatted", post |-> ")", complete |-> TRUE, request |-> "none"]  \* 0x6C
      [] opcode = 109 -> [bytes |-> 3, pre |-> "ADC ", operand |-> "absolute_address_formatted", post |-> "", complete |-> FALSE, request |-> "none"]  \* 0x6D
      [] opcode = 110 -> [bytes |-> 3, pre |-> "ROR ", operand |-> "absolute_address_formatted", post |-> "", complete |-> FALSE, request |-> "none"]  \* 0x6E
      [] opcode = 112 -> [bytes |-> 2, pre |-> "BVS ", operand |-> "label", post |-> "", complete |-> FALSE, request |-> "branch_target"]  \* 0x70
      [] opcode = 113 -> [bytes |-> 2, pre |-> "ADC (", operand |-> "operand1_formatted", post |-> "),Y", complete |-> FALSE, request |-> "none"]  \* 0x71
      [] opcode = 117 -> [bytes |-> 2, pre |-> "ADC ", operand |-> "operand1_formatted", post |-> ",X", complete |-> FALSE, request |-> "none"]  \* 0x75
      [] opcode = 118 -> [bytes |-> 2, pre |-> "ROR ", operand |-> "operand1_formatted", post |-> ",X", complete |-> FALSE, request |-> "none"]  \* 0x76
      [] opcode = 120 -> [bytes |-> 1, pre |-> "SEI", operand |-> "none", post |-> "", complete |-> FALSE, request |-> "none"]  \* 0x78
      [] opcode = 121 -> [bytes |-> 3, pre |-> "ADC ", operand |-> "absolute_address_formatted", post |-> ",Y", complete |-> FALSE, request |-> "none"]  \* 0x79
      [] opcode = 125 -> [bytes |-> 3, pre |-> "ADC ", operand |-> "absolute_address_formatted", post |-> ",X", complete |-> FALSE, request |-> "none"]  \* 0x7D
      [] opcode = 126 -> [bytes |-> 3, pre |-> "ROR ", operand |-> "absolute_address_formatted", post |-> ",X", complete |-> FALSE, request |-> "none"]  \* 0x7E
      [] opcode = 129 -> [bytes |-> 2, pre |-> "STA (", operand |-> "operand1_formatted", post |-> ",X)", complete |-> FALSE, request |-> "none"]  \* 0x81
      [] opcode = 132 -> [bytes |-> 2, pre |-> "STY ", operand |-> "operand1_formatted", post |-> "", complete |-> FALSE, request |-> "none"]  \* 0x84
      [] opcode = 133 -> [bytes |-> 2, pre |-> "STA ", operand |-> "operand1_formatted", post |-> "", complete |-> FALSE, request |-> "none"]  \* 0x85
      [] opcode = 134 -> [bytes |-> 2, pre |-> "STX ", operand |-> "operand1_formatted", post |-> "", complete |-> FALSE, request |-> "none"]  \* 0x86
      [] opcode = 136 -> [bytes |-> 1, pre |-> "DEY", operand |-> "none", post |-> "", complete |-> FALSE, request |-> "none"]  \* 0x88
      [] opcode = 138 -> [bytes |-> 1, pre |-> "TXA", operand |-> "none", post |-> "", complete |-> FALSE, request |-> "none"]  \* 0x8A
      [] opcode = 140 -> [bytes |-> 3, pre |-> "STY ", operand |-> "absolute_address_formatted", post |-> "", complete |-> FALSE, request |-> "none"]  \* 0x8C
      [] opcode = 141 -> [bytes |-> 3, pre |-> "STA ", operand |-> "absolute_address_formatted", post |-> "", complete |-> FALSE, request |-> "none"]  \* 0x8D
      [] opcode = 142 -> [bytes |-> 3, pre |-> "STX ", operand |-> "absolute_address_formatted", post |-> "", complete |-> FALSE, request |-> "none"]  \* 0x8E
      [] opcode = 144 -> [bytes |-> 2, pre |-> "BCC ", operand |-> "label", post |-> "", complete |-> FALSE, request |-> "branch_target"]  \* 0x90
      [] opcode = 145 -> [bytes |-> 2, pre |-> "STA (", operand |-> "operand1_formatted", post |-> "),Y", complete |-> FALSE, request |-> "none"]  \* 0x91
      [] opcode = 148 -> [bytes |-> 2, pre |-> "STY ", operand |-> "operand1_formatted", post |-> ",X", complete |-> FALSE, request |-> "none"]  \* 0x94
      [] opcode = 149 -> [bytes |-> 2, pre |-> "STA ", operand |-> "operand1_formatted", post |-> ",X", complete |-> FALSE, request |-> "none"]  \* 0x95
      [] opcode = 150 -> [bytes |-> 2, pre |-> "STX ", operand |-> "operand1_formatted", post |-> ",Y", complete |-> FALSE, request |-> "none"]  \* 0x96
      [] opcode = 152 -> [bytes |-> 1, pre |-> "TYA", operand |-> "none", post |-> "", complete |-> FALSE, request |-> "none"]  \* 0x98
      [] opcode = 153 -> [bytes |-> 3, pre |-> "STA ", operand |-> "absolute_address_formatted", post |-> ",Y", complete |-> FALSE, request |-> "none"]  \* 0x99
      [] opcode = 154 -> [bytes |-> 1, pre |-> "TXS", operand |-> "none", post |-> "", complete |-> FALSE, request |-> "none"]  \* 0x9A
      [] opcode = 157 -> [bytes |-> 3, pre |-> "STA ", operand |-> "absolute_address_formatted", post |-> ",X", complete |-> FALSE, request |-> "none"]  \* 0x9D
      [] opcode = 160 -> [bytes |-> 2, pre |-> "LDY #", operand |-> "operand1_formatted", post |-> "", complete |-> FALSE, request |-> "none"]  \* 0xA0
      [] opcode = 161 -> [bytes |-> 2, pre |-> "LDA (", operand |-> "operand1_formatted", post |-> ",X)", complete |-> FALSE, request |-> "none"]  \* 0xA1
      [] opcode = 162 -> [bytes |-> 2, pre |-> "LDX #", operand |-> "operand1_formatted", post |-> "", complete |-> FALSE, request |-> "none"]  \* 0xA2
      [] opcode = 164 -> [bytes |-> 2, pre |-> "LDY ", operand |-> "operand1_formatted", post |-> "", complete |-> FALSE, request |-> "none"]  \* 0xA4
      [] opcode = 165 -> [bytes |-> 2, pre |-> "LDA ", operand |-> "operand1_formatted", post |-> "", complete |-> FALSE, request |-> "none"]  \* 0xA5
      [] opcode = 166 -> [bytes |-> 2, pre |-> "LDX ", operand |-> "operand1_formatted", post |-> "", complete |-> FALSE, request |-> "none"]  \* 0xA6
      [] opcode = 168 -> [bytes |-> 1, pre |-> "TAY", operand |-> "none", post |-> "", complete |-> FALSE, request |-> "none"]  \* 0xA8
      [] opcode = 169 -> [bytes |-> 2, pre |-> "LDA #", operand |-> "operand1_formatted", post |-> "", complete |-> FALSE, request |-> "none"]  \* 0xA9
      [] opcode = 170 -> [bytes |-> 1, pre |-> "TAX", operand |-> "none", post |-> "", complete |-> FALSE, request |-> "none"]  \* 0xAA
      [] opcode = 172 -> [bytes |-> 3, pre |-> "LDY ", operand |-> "absolute_address_formatted", post |-> "", complete |-> FALSE, request |-> "none"]  \* 0xAC
      [] opcode = 173 -> [bytes |-> 3, pre |-> "LDA ", operand |-> "absolute_address_formatted", post |-> "", complete |-> FALSE, request |-> "none"]  \* 0xAD
      [] opcode = 174 -> [bytes |-> 3, pre |-> "LDX ", operand |-> "absolute_address_formatted", post |-> "", complete |-> FALSE, request |-> "none"]  \* 0xAE
      [] opcode = 176 -> [bytes |-> 2, pre |-> "BCS ", operand |-> "label", post |-> "", complete |-> FALSE, request |-> "branch_target"]  \* 0xB0
      [] opcode = 177 -> [bytes |-> 2, pre |-> "LDA (", operand |-> "operand1_formatted", post |-> "),Y", complete |-> FALSE, request |-> "none"]  \* 0xB1
      [] opcode = 180 -> [bytes |-> 2, pre |-> "LDY ", operand |-> "operand1_formatted", post |-> ",X", complete |-> FALSE, request |-> "none"]  \* 0xB4
      [] opcode = 181 -> [bytes |-> 2, pre |-> "LDA ", operand |-> "operand1_formatted", post |-> ",X", complete |-> FALSE, request |-> "none"]  \* 0xB5
      [] opcode = 182 -> [bytes |-> 2, pre |-> "LDX ", operand |-> "operand1_formatted", post |-> ",Y", complete |-> FALSE, request |-> "none"]  \* 0xB6
      [] opcode = 184 -> [bytes |-> 1, pre |-> "CLV", operand |-> "none", post |-> "", complete |-> FALSE, request |-> "none"]  \* 0xB8
      [] opcode = 185 -> [bytes |-> 3, pre |-> "LDA ", operand |-> "absolute_address_formatted", post |-> ",Y", complete |-> FALSE, request |-> "none"]  \* 0xB9
      [] opcode = 186 -> [bytes |-> 1, pre |-> "TSX", operand |-> "none", post |-> "", complete |-> FALSE, request |-> "none"]  \* 0xBA
      [] opcode = 188 -> [bytes |-> 3, pre |-> "LDY ", operand |-> "absolute_address_formatted", post |-> ",X", complete |-> FALSE, request |-> "none"]  \* 0xBC
      [] opcode = 189 -> [bytes |-> 3, pre |-> "LDA ", operand |-> "absolute_address_formatted", post |-> ",X", complete |-> FALSE, request |-> "none"]  \* 0xBD
      [] opcode = 190 -> [bytes |-> 3, pre |-> "LDX ", operand |-> "absolute_address_formatted", post |-> ",Y", complete |-> FALSE, request |-> "none"]  \* 0xBE
      [] opcode = 192 -> [bytes |-> 2, pre |-> "CPY #", operand |-> "operand1_formatted", post |-> "", complete |-> FALSE, request |-> "none"]  \* 0xC0
      [] opcode = 193 -> [bytes |-> 2, pre |-> "CMP (", operand |-> "operand1_formatted", post |-> ",X)", complete |-> FALSE, request |-> "none"]  \* 0xC1
      [] opcode = 196 -> [bytes |-> 2, pre |-> "CPY ", operand |-> "operand1_formatted", post |-> "", complete |-> FALSE, request |-> "none"]  \* 0xC4
      [] opcode = 197 -> [bytes |-> 2, pre |-> "CMP ", operand |-> "operand1_formatted", post |-> "", complete |-> FALSE, request |-> "none"]  \* 0xC5
      [] opcode = 198 -> [bytes |-> 2, pre |-> "DEC ", operand |-> "operand1_formatted", post |-> "", complete |-> FALSE, request |-> "none"]  \* 0xC6
      [] opcode = 200 -> [bytes |-> 1, pre |-> "INY", operand |-> "none", post |-> "", complete |-> FALSE, request |-> "none"]  \* 0xC8
      [] opcode = 201 -> [bytes |-> 2, pre |-> "CMP #", operand |-> "operand1_formatted", post |-> "", complete |-> FALSE, request |-> "none"]  \* 0xC9
      [] opcode = 202 -> [bytes |-> 1, pre |-> "DEX", operand |-> "none", post |-> "", complete |-> FALSE, request |-> "none"]  \* 0xCA
      [] opcode = 204 -> [bytes |-> 3, pre |-> "CPY ", operand |-> "absolute_address_formatted", post |-> "", complete |-> FALSE, request |-> "none"]  \* 0xCC
      [] opcode = 205 -> [bytes |-> 3, pre |-> "CMP ", operand |-> "absolute_address_formatted", post |-> "", complete |-> FALSE, request |-> "none"]  \* 0xCD
      [] opcode = 206 -> [bytes |-> 3, pre |-> "DEC ", operand |-> "absolute_address_formatted", post |-> "", complete |-> FALSE, request |-> "none"]  \* 0xCE
      [] opcode = 208 -> [bytes |-> 2, pre |-> "BNE ", operand |-> "label", post |-> "", complete |-> FALSE, request |-> "branch_target"]  \* 0xD0
      [] opcode = 209 -> [bytes |-> 2, pre |-> "CMP (", operand |-> "operand1_formatted", post |-> "),Y", complete |-> FALSE, request |-> "none"]  \* 0xD1
      [] opcode = 213 -> [bytes |-> 2, pre |-> "CMP ", operand |-> "operand1_formatted", post |-> ",X", complete |-> FALSE, request |-> "none"]  \* 0xD5
      [] opcode = 214 -> [bytes |-> 2, pre |-> "DEC ", operand |-> "operand1_formatted", post |-> ",X", complete |-> FALSE, request |-> "none"]  \* 0xD6
      [] opcode = 216 -> [bytes |-> 1, pre |-> "CLD", operand |-> "none", post |-> "", complete |-> FALSE, request |-> "none"]  \* 0xD8
      [] opcode = 217 -> [bytes |-> 3, pre |-> "CMP ", operand |-> "absolute_address_formatted", post |-> ",Y", complete |-> FALSE, request |-> "none"]  \* 0xD9
      [] opcode = 221 -> [bytes |-> 3, pre |-> "CMP ", operand |-> "absolute_address_formatted", post |-> ",X", complete |-> FALSE, request |-> "none"]  \* 0xDD
      [] opcode = 222 -> [bytes |-> 3, pre |-> "DEC ", operand |-> "absolute_address_formatted", post |-> ",X", complete |-> FALSE, request |-> "none"]  \* 0xDE
      [] opcode = 224 -> [bytes |-> 2, pre |-> "CPX #", operand |-> "operand1_formatted", post |-> "", complete |-> FALSE, request |-> "none"]  \* 0xE0
      [] opcode = 225 -> [bytes |-> 2, pre |-> "SBC (", operand |-> "operand1_formatted", post |-> ",X)", complete |-> FALSE, request |-> "none"]  \* 0xE1
      [] opcode = 228 -> [bytes |-> 2, pre |-> "CPX ", operand |-> "operand1_formatted", post |-> "", complete |-> FALSE, request |-> "none"]  \* 0xE4
      [] opcode = 229 -> [bytes |-> 2, pre |-> "SBC ", operand |-> "operand1_formatted", post |-> "", complete |-> FALSE, request |-> "none"]  \* 0xE5
      [] opcode = 230 -> [bytes |-> 2, pre |-> "INC ", operand |-> "operand1_formatted", post |-> "", complete |-> FALSE, request |-> "none"]  \* 0xE6
      [] opcode = 232 -> [bytes |-> 1, pre |-> "INX", operand |-> "none", post |-> "", complete |-> FALSE, request |-> "none"]  \* 0xE8
      [] opcode = 233 -> [bytes |-> 2, pre |-> "SBC #", operand |-> "operand1_formatted", post |-> "", complete |-> FALSE, request |-> "none"]  \* 0xE9
      [] opcode = 234 -> [bytes |-> 1, pre |-> "NOP", operand |-> "none", post |-> "", complete |-> FALSE, request |-> "none"]  \* 0xEA
      [] opcode = 236 -> [bytes |-> 3, pre |-> "CPX ", operand |-> "absolute_address_formatted", post |-> "", complete |-> FALSE, request |-> "none"]  \* 0xEC
      [] opcode = 237 -> [bytes |-> 3, pre |-> "SBC ", operand |-> "absolute_address_formatted", post |-> "", complete |-> FALSE, request |-> "none"]  \* 0xED
      [] opcode = 238 -> [bytes |-> 3, pre |-> "INC ", operand |-> "absolute_address_formatted", post |-> "", complete |-> FALSE, request |-> "none"]  \* 0xEE
      [] opcode = 240 -> [bytes |-> 2, pre |-> "BEQ ", operand |-> "label", post |-> "", complete |-> FALSE, request |-> "branch_target"]  \* 0xF0
      [] opcode = 241 -> [bytes |-> 2, pre |-> "SBC (", operand |-> "operand1_formatted", post |-> "),Y", complete |-> FALSE, request |-> "none"]  \* 0xF1
      [] opcode = 245 -> [bytes |-> 2, pre |-> "SBC ", operand |-> "operand1_formatted", post |-> ",X", complete |-> FALSE, request |-> "none"]  \* 0xF5
      [] opcode = 246 -> [bytes |-> 2, pre |-> "INC ", operand |-> "operand1_formatted", post |-> ",X", complete |-> FALSE, request |-> "none"]  \* 0xF6
      [] opcode = 248 -> [bytes |-> 1, pre |-> "SED", operand |-> "none", post |-> "", complete |-> FALSE, request |-> "none"]  \* 0xF8
      [] opcode = 249 -> [bytes |-> 3, pre |-> "SBC ", operand |-> "absolute_address_formatted", post |-> ",Y", complete |-> FALSE, request |-> "none"]  \* 0xF9
      [] opcode = 253 -> [bytes |-> 3, pre |-> "SBC ", operand |-> "absolute_address_formatted", post |-> ",X", complete |-> FALSE, request |-> "none"]  \* 0xFD
      [] opcode = 254 -> [bytes |-> 3, pre |-> "INC ", operand |-> "absolute_address_formatted", post |-> ",X", complete |-> FALSE, request |-> "none"]  \* 0xFE
      [] OTHER -> [bytes |-> 1, pre |-> "", operand |-> "unknown_opcode", post |-> "", complete |-> TRUE, request |-> "none"]

\* The opcode patterns that have an arm of their own.
SupportedOpcodes ==
    {
      0, 1, 5, 6, 8, 9, 10, 13, 14, 16, 17, 21,
      22, 24, 25, 29, 30, 32, 33, 36, 37, 38, 40, 41,
      42, 44, 45, 46, 48, 49, 53, 54, 56, 57, 61, 62,
      64, 65, 69, 70, 72, 73, 74, 76, 77, 78, 80, 81,
      85, 86, 88, 89, 93, 94, 96, 97, 101, 102, 104, 105,
      106, 108, 109, 110, 112, 113, 117, 118, 120, 121, 125, 126,
      129, 132, 133, 134, 136, 138, 140, 141, 142, 144, 145, 148,
      149, 150, 152, 153, 154, 157, 160, 161, 162, 164, 165, 166,
      168, 169, 170, 172, 173, 174, 176, 177, 180, 181, 182, 184,
      185, 186, 188, 189, 190, 192, 193, 196, 197, 198, 200, 201,
      202, 204, 205, 206, 208, 209, 213, 214, 216, 217, 221, 222,
      224, 225, 228, 229, 230, 232, 233, 234, 236, 237, 238, 240,
      241, 245, 246, 248, 249, 253, 254
    }

instruction_bytes_count_LdxAbsoluteYTwo(opcode) ==
    IF opcode = 190 THEN 2 ELSE InstructionArm(opcode).bytes

instruction_bytes_count(opcode) == InstructionArm(opcode).bytes

is_section_complete_JmpAbsoluteFallsThrough(opcode) ==
    IF opcode = 76 THEN FALSE ELSE InstructionArm(opcode).complete

is_section_complete(opcode) == InstructionArm(opcode).complete

\* the operand reads of lines 4 and 5 index past the end of the Vec
DecodePanics(rom, offset) ==
    ~ (IndexInBounds(rom, offset + 1) /\ IndexInBounds(rom, offset + 2))

BytesTrailer_AllThree(rom, offset, count) ==
    " " \o FormatHex(RomByte(rom, offset), 2)
        \o " " \o FormatHex(RomByte(rom, offset + 1), 2)
        \o " " \o FormatHex(RomByte(rom, offset + 2), 2)

\* the hex dump of the instruction's bytes
RECURSIVE BytesTrailer(_, _, _)
BytesTrailer(rom, offset, count) ==
    IF count = 0 THEN ""
    ELSE BytesTrailer(rom, offset, count - 1)
            \o " " \o FormatHex(RomByte(rom, offset + count - 1), 2)

requested_role_JmpIndirectToo(opcode) ==
    IF opcode = 108 THEN "jump_target" ELSE InstructionArm(opcode).request

\* the role in which the arm of the opcode requests a label, "none" for an
\* arm that does not call the labeller
requested_role(opcode) == InstructionArm(opcode).request

\* The returned tuple, and the Labeller after the call.
disassemble_instruction(rom, offset, address, l) ==
    LET opcode == RomByte(rom, offset)
        operand1 == RomByte(rom, offset + 1)
        operand2 == RomByte(rom, offset + 2)
        absolute_address == create_u16(operand1, operand2)
        absolute_address_formatted == format_absolute_address(absolute_address)
        operand1_formatted == "$" \o FormatHex(operand1, 2)
        arm == InstructionArm(opcode)
        count == instruction_bytes_count(opcode)
        request == requested_role(opcode)
        target_address ==
            IF request = "branch_target"
            THEN calculate_target_address((address + count) % U16, operand1)
            ELSE absolute_address
        requested ==
            CASE request = "branch_target" ->
                    request_label_for_branch_target(l, target_address)
              [] request = "subroutine" ->
                    request_label_for_subroutine(l, target_address)
              [] request = "jump_target" ->
                    request_label_for_jump_target(l, target_address)
              [] OTHER -> [label |-> "", labeller |-> l]
        operand_text ==
            CASE arm.operand = "label" -> requested.label
              [] arm.operand = "operand1_formatted" -> operand1_formatted
              [] arm.operand = "absolute_address_formatted" -> absolute_address_formatted
              [] arm.operand = "unknown_opcode" ->
                    "\n***\nUNKNOWN OPCODE AT ADDRESS $" \o FormatHex(address, 4)
                        \o ": $" \o FormatHex(opcode, 2) \o "\n***"
              [] OTHER -> ""
        instruction_text == arm.pre \o operand_text \o arm.post
        bytes == BytesTrailer(rom, offset, count)
        text_line == "    " \o instruction_text \o "        # "
                        \o FormatHex(address, 4) \o " |" \o bytes
    IN  [ is_section_complete |-> is_section_complete(opcode),
          instruction_bytes_count |-> count,
          text_line |-> text_line,
          address_for_later_processing |->
              IF request = "none" THEN None ELSE Some(target_address),
          labeller |-> requested.labeller ]

---------------------------------------------------------------------------
(* cartridge.rs: the state after Cartridge::load_from_file *)

MapperIds == {0, 1}
BankCounts == {1, 2, 3}

\* bytes drawn for the first CodeLen offsets: BRK, an unsupported opcode,
\* JSR, JMP absolute, RTS, $80 (unsupported; high byte of $80xx), BCC, INC abs,X
CodeBytes == {0, 2, 32, 76, 96, 128, 144, 254}

\* the byte of every offset that is neither code nor a vector ($FF)
FillBytes == {255}

\* the vectors stored in the last six bytes
ResetVectors == {0, 32768, 32769, 49152, 65534}
NmiVectors == {32768}
IrqVectors == {65535}

\* the bytes at offsets 0x7FFC .. 0x7FFF of a ROM of more than two banks: the
\* word 0x8001 and FF FF, or the word 0xFFFE and BRK BRK
SecondBankTails == {<<1, 128, 255, 255>>, <<254, 255, 0, 0>>}

\* the offset of the first of them
SecondBankTailOffset == VectorsBaseTwoBanks + 2

LowByte(word) == word % 256
HighByte(word) == word \div 256

\* prg_rom_contents as read from the file: prg_rom_bank_count * 16384 bytes
LoadedRom(banks, code, fill, nmi, reset, irq, tail) ==
    LET len == banks * PrgBankSize
        vectors == <<LowByte(nmi), HighByte(nmi), LowByte(reset), HighByte(reset),
                     LowByte(irq), HighByte(irq)>>
        inner == IF banks > 2
                 THEN SecondBankTailOffset .. (SecondBankTailOffset + 3)
                 ELSE {}
    IN  [ len |-> len,
          fill |-> fill,
          patch |-> [i \in (0 .. (CodeLen - 1)) \cup inner
                              \cup ((len - 6) .. (len - 1)) |->
                        IF i >= len - 6 THEN vectors[i - (len - 6) + 1]
                        ELSE IF i \in inner THEN tail[i - SecondBankTailOffset + 1]
                        ELSE code[i + 1]] ]

Init ==
    /\ mapper_id \in MapperIds
    /\ prg_rom_bank_count \in BankCounts
    /\ \E code \in [1 .. CodeLen -> CodeBytes], fill \in FillBytes,
          nmi \in NmiVectors, reset \in ResetVectors, irq \in IrqVectors,
          tail \in SecondBankTails :
          prg_rom_contents =
              LoadedRom(prg_rom_bank_count, code, fill, nmi, reset, irq, tail)
    /\ global_labels = EmptyMap
    /\ labeller = LabellerNew
    /\ text_lines = EmptyMap
    /\ entry_points = << >>
    /\ current_address = 0
    /\ contents_offset = 0
    /\ pc = "Loaded"
    /\ ret = None
    /\ decode_calls = << >>
    /\ requests = << >>
    /\ stdout = << >>

---------------------------------------------------------------------------
(* Cartridge::disassemble *)

vectors_base_address ==
    IF prg_rom_bank_count > 1 THEN VectorsBaseTwoBanks ELSE VectorsBaseOneBank

ReadVector_HighByteFirst(rom, at) == (RomByte(rom, at) * 256) + RomByte(rom, at + 1)

ReadVector(rom, at) == (RomByte(rom, at + 1) * 256) + RomByte(rom, at)

nmi_vector == ReadVector(prg_rom_contents, vectors_base_address)
reset_vector == ReadVector(prg_rom_contents, vectors_base_address + 2)
irq_vector == ReadVector(prg_rom_contents, vectors_base_address + 4)

\* the mapper check fails: panic!
DisassembleUnsupportedMapper ==
    /\ pc = "Loaded"
    /\ mapper_id # 0
    /\ pc' = "MapperPanic"
    /\ UNCHANGED <<mapper_id, prg_rom_bank_count, prg_rom_contents, global_labels,
                   labeller, text_lines, entry_points, current_address,
                   contents_offset, ret, decode_calls, requests, stdout>>

Disassemble_NoMapperCheck ==
    /\ pc = "Loaded"
    /\ IndexInBounds(prg_rom_contents, vectors_base_address + 5)
    /\ global_labels' = MapInsert(global_labels, reset_vector, "RESET")
    /\ entry_points' = Append(entry_points, reset_vector)
    /\ pc' = "Pop"
    /\ UNCHANGED <<mapper_id, prg_rom_bank_count, prg_rom_contents,
                   labeller, text_lines, current_address,
                   contents_offset, ret, decode_calls, requests, stdout>>

Disassemble_FromNmiVector ==
    /\ pc = "Loaded"
    /\ mapper_id = 0
    /\ IndexInBounds(prg_rom_contents, vectors_base_address + 5)
    /\ global_labels' = MapInsert(global_labels, nmi_vector, "RESET")
    /\ entry_points' = Append(entry_points, nmi_vector)
    /\ pc' = "Pop"
    /\ UNCHANGED <<mapper_id, prg_rom_bank_count, prg_rom_contents,
                   labeller, text_lines, current_address,
                   contents_offset, ret, decode_calls, requests, stdout>>

\* the vectors are read and disassemble_from_entry_point(reset_vector, "RESET")
\* is entered: the global label is set and the entry point is pushed
Disassemble ==
    /\ pc = "Loaded"
    /\ mapper_id = 0
    /\ IndexInBounds(prg_rom_contents, vectors_base_address + 5)
    /\ global_labels' = MapInsert(global_labels, reset_vector, "RESET")
    /\ entry_points' = Append(entry_points, reset_vector)
    /\ pc' = "Pop"
    /\ UNCHANGED <<mapper_id, prg_rom_bank_count, prg_rom_contents,
                   labeller, text_lines, current_address,
                   contents_offset, ret, decode_calls, requests, stdout>>

---------------------------------------------------------------------------
(* Cartridge::disassemble_from_entry_point *)

\* while !entry_points.is_empty(): the loop is left
Finish ==
    /\ pc = "Pop"
    /\ entry_points = << >>
    /\ pc' = "Done"
    /\ UNCHANGED <<mapper_id, prg_rom_bank_count, prg_rom_contents, global_labels,
                   labeller, text_lines, entry_points, current_address,
                   contents_offset, ret, decode_calls, requests, stdout>>

\* Vec::pop: the last element pushed
PopLast(points) == points[Len(points)]

PopRest(points) == SubSeq(points, 1, Len(points) - 1)

Pop ==
    /\ pc = "Pop"
    /\ entry_points # << >>
    /\ current_address' = PopLast(entry_points)
    /\ entry_points' = PopRest(entry_points)
    /\ pc' = "Run"
    /\ UNCHANGED <<mapper_id, prg_rom_bank_count, prg_rom_contents, global_labels,
                   labeller, text_lines,
                   contents_offset, ret, decode_calls, requests, stdout>>

\* current_address - 0x8000 on usize: the subtraction overflows below 0x8000
\* (a panic in a debug build; in a release build the wrapped offset is far
\* past the end of the Vec and the first read panics)
OffsetUnderflows(address) == address < MappingBase

\* the returned tuple is bound to (is_section_complete,
\* current_instruction_bytes, text_line): the address for later processing is
\* dropped and entry_points is left as it is
EntryPointsAfterDecode_PushDestination(points, result) ==
    IF result.address_for_later_processing = None THEN points
    ELSE Append(points, result.address_for_later_processing[1])

EntryPointsAfterDecode(points, result) == points

AdvanceCursor_ByOne(address, count) == address + 1

AdvanceCursor(address, count) == address + count

TextLine(result) ==
    [contents |-> result.text_line, bytes |-> result.instruction_bytes_count]

\* one pass of the inner loop in which the decoder returns
RunStep ==
    /\ pc = "Run"
    /\ ~ OffsetUnderflows(current_address)
    /\ ~ DecodePanics(prg_rom_contents, current_address - MappingBase)
    /\ LET result == disassemble_instruction(prg_rom_contents,
                        current_address - MappingBase, current_address, labeller)
       IN  /\ labeller' = result.labeller
           /\ text_lines' = MapInsert(text_lines, current_address, TextLine(result))
           /\ entry_points' = EntryPointsAfterDecode(entry_points, result)
           /\ current_address' =
                 AdvanceCursor(current_address, result.instruction_bytes_count)
           /\ pc' = IF result.is_section_complete THEN "Pop" ELSE "Run"
           /\ ret' = [r \in {"is_section_complete", "instruction_bytes_count",
                             "text_line", "address_for_later_processing"} |->
                        result[r]]
           /\ decode_calls' = Append(decode_calls,
                 [ address |-> current_address,
                   is_section_complete |-> result.is_section_complete,
                   instruction_bytes_count |-> result.instruction_bytes_count,
                   text_line |-> result.text_line,
                   address_for_later_processing |->
                       result.address_for_later_processing ])
    /\ UNCHANGED <<mapper_id, prg_rom_bank_count, prg_rom_contents, global_labels,
                   contents_offset, requests, stdout>>

\* one pass of the inner loop in which the offset or an operand read is out
\* of range: the process panics
RunPanic ==
    /\ pc = "Run"
    /\ \/ OffsetUnderflows(current_address)
       \/ DecodePanics(prg_rom_contents, current_address - MappingBase)
    /\ pc' = "Panic"
    /\ UNCHANGED <<mapper_id, prg_rom_bank_count, prg_rom_contents, global_labels,
                   labeller, text_lines, entry_points, current_address,
                   contents_offset, ret, decode_calls, requests, stdout>>

---------------------------------------------------------------------------
(* Cartridge::print_disassembly *)

\* the end of the address range print_disassembly walks
PrintLimit == 65536

\* println!("{label}: [{:04X}]", address)
LabelLine(label, address) == label \o ": [" \o FormatHex(address, 4) \o "]"

\* the line of a map that has the address, none otherwise
LabelLines(labels, address) ==
    IF address \in DOMAIN labels
    THEN <<LabelLine(labels[address], address)>>
    ELSE << >>

\* one pass of the loop: the global label, the branch-target, jump-target and
\* subroutine labels of the address, then its text line
LinesAt(address) ==
    LabelLines(global_labels, address)
        \o LabelLines(labeller.branch_targets_to_labels, address)
        \o LabelLines(labeller.jump_targets_to_labels, address)
        \o LabelLines(labeller.subroutines_to_labels, address)
        \o (IF address \in DOMAIN text_lines
            THEN <<text_lines[address].contents>>
            ELSE << >>)

\* address += text_line.bytes after a text line, address += 1 otherwise
AddressAfter(address) ==
    IF address \in DOMAIN text_lines
    THEN address + text_lines[address].bytes
    ELSE address + 1

\* the addresses at which a pass of the loop writes something
AddressesWithLines ==
    DOMAIN global_labels
        \cup DOMAIN labeller.branch_targets_to_labels
        \cup DOMAIN labeller.jump_targets_to_labels
        \cup DOMAIN labeller.subroutines_to_labels
        \cup DOMAIN text_lines

\* the lines written from `address` on. A pass at an address with no label
\* and no text line writes nothing and goes on to address + 1, so the loop
\* is taken up at the next address that has a line.
RECURSIVE PrintFrom(_)
PrintFrom(address) ==
    LET ahead == {a \in AddressesWithLines : address <= a /\ a < PrintLimit}
    IN  IF ahead = {}
        THEN << >>
        ELSE LET next == CHOOSE a \in ahead : \A b \in ahead : a <= b
             IN  LinesAt(next) \o PrintFrom(AddressAfter(next))

\* main: cartridge.print_disassembly() once cartridge.disassemble() returned
PrintDisassembly ==
    /\ pc = "Done"
    /\ stdout' = PrintFrom(0)
    /\ pc' = "Printed"
    /\ UNCHANGED <<mapper_id, prg_rom_bank_count, prg_rom_contents, global_labels,
                   labeller, text_lines, entry_points, current_address,
                   contents_offset, ret, decode_calls, requests>>

Next ==
    \/ DisassembleUnsupportedMapper
    \/ Disassemble
    \/ Pop
    \/ Finish
    \/ RunStep
    \/ RunPanic
    \/ PrintDisassembly

Spec == Init /\ [][Next]_vars

---------------------------------------------------------------------------
(* LabSpec: any sequence of at most MaxRequests label requests, in any     *)
(* order over the three roles, on a Labeller created by Labeller::new.     *)

LabelAddresses == {0, 32768, 65535}

LabInit ==
    /\ mapper_id = 0
    /\ prg_rom_bank_count = 0
    /\ prg_rom_contents = [len |-> 0, fill |-> 0, patch |-> EmptyMap]
    /\ global_labels = EmptyMap
    /\ labeller = LabellerNew
    /\ text_lines = EmptyMap
    /\ entry_points = << >>
    /\ current_address = 0
    /\ contents_offset = 0
    /\ pc = "Labeller"
    /\ ret = None
    /\ decode_calls = << >>
    /\ requests = << >>
    /\ stdout = << >>

\* the call returns `result` for a request of `address` in `role`
Requested(role, address, result) ==
    /\ pc = "Labeller"
    /\ Len(requests) < MaxRequests
    /\ labeller' = result.labeller
    /\ ret' = result.label
    /\ requests' = Append(requests,
          [role |-> role, address |-> address, label |-> result.label])
    /\ UNCHANGED <<mapper_id, prg_rom_bank_count, prg_rom_contents, global_labels,
                   text_lines, entry_points, current_address, contents_offset,
                   pc, decode_calls, stdout>>

RequestBranchTarget ==
    \E address \in LabelAddresses :
        Requested("branch_target", address,
                  request_label_for_branch_target(labeller, address))

RequestJumpTarget ==
    \E address \in LabelAddresses :
        Requested("jump_target", address,
                  request_label_for_jump_target(labeller, address))

RequestSubroutine ==
    \E address \in LabelAddresses :
        Requested("subroutine", address,
                  request_label_for_subroutine(labeller, address))

\* the positions of the three lookups of print_disassembly
LookupPositions ==
    {"get_branch_target_label", "get_jump_target_label", "get_subroutine_label"}

\* a lookup of print_disassembly, made once the requests are over: its
\* result is held in ret, the address asked about in current_address
LookedUp(position, address, result) ==
    /\ pc' = position
    /\ current_address' = address
    /\ ret' = result
    /\ UNCHANGED <<mapper_id, prg_rom_bank_count, prg_rom_contents, global_labels,
                   labeller, text_lines, entry_points, contents_offset,
                   decode_calls, requests, stdout>>

\* print_disassembly asks, for each address in turn, for the branch-target
\* label, then the jump-target label, then the subroutine label
GetBranchTargetLabel ==
    /\ pc \in {"Labeller", "get_subroutine_label"}
    /\ \E address \in LabelAddresses :
          LookedUp("get_branch_target_label", address,
                   get_branch_target_label(labeller, address))

GetJumpTargetLabel ==
    /\ pc = "get_branch_target_label"
    /\ LookedUp("get_jump_target_label", current_address,
                get_jump_target_label(labeller, current_address))

GetSubroutineLabel ==
    /\ pc = "get_jump_target_label"
    /\ LookedUp("get_subroutine_label", current_address,
                get_subroutine_label(labeller, current_address))

LabNext ==
    \/ RequestBranchTarget
    \/ RequestJumpTarget
    \/ RequestSubroutine
    \/ GetBranchTargetLabel
    \/ GetJumpTargetLabel
    \/ GetSubroutineLabel

LabSpec == LabInit /\ [][LabNext]_vars

---------------------------------------------------------------------------
(* DecSpec: one call disassemble_instruction(&bytes, 0, address, labeller) *)
(* on a window of one to three bytes and a new Labeller.                   *)

BranchOpcodes == {16, 48, 80, 112, 144, 176, 208, 240}

AllBytes == 0 .. 255
Operand1Bytes == {0, 18, 128, 255}
Operand2Bytes == {0, 32, 128}
DecodeAddresses == {0, 32768, 33023, 65533, 65534, 65535}

\* the cases of the unit tests: assert_disasm(bytes, expected) decodes bytes
\* at offset 0 and address 0x8000 on a new Labeller and expects the text to
\* contain `expected`
Tests ==
    {
      [bytes |-> <<105, 18, 0>>, expected |-> "ADC #$12"],
      [bytes |-> <<101, 18, 0>>, expected |-> "ADC $12"],
      [bytes |-> <<117, 18, 0>>, expected |-> "ADC $12,X"],
      [bytes |-> <<109, 52, 18>>, expected |-> "ADC $1234"],
      [bytes |-> <<125, 52, 18>>, expected |-> "ADC $1234,X"],
      [bytes |-> <<121, 52, 18>>, expected |-> "ADC $1234,Y"],
      [bytes |-> <<97, 18, 0>>, expected |-> "ADC ($12,X)"],
      [bytes |-> <<113, 18, 0>>, expected |-> "ADC ($12),Y"],
      [bytes |-> <<41, 18, 0>>, expected |-> "AND #$12"],
      [bytes |-> <<37, 18, 0>>, expected |-> "AND $12"],
      [bytes |-> <<53, 18, 0>>, expected |-> "AND $12,X"],
      [bytes |-> <<45, 52, 18>>, expected |-> "AND $1234"],
      [bytes |-> <<61, 52, 18>>, expected |-> "AND $1234,X"],
      [bytes |-> <<57, 52, 18>>, expected |-> "AND $1234,Y"],
      [bytes |-> <<33, 18, 0>>, expected |-> "AND ($12,X)"],
      [bytes |-> <<49, 18, 0>>, expected |-> "AND ($12),Y"],
      [bytes |-> <<10, 0, 0>>, expected |-> "ASL A"],
      [bytes |-> <<6, 18, 0>>, expected |-> "ASL $12"],
      [bytes |-> <<22, 18, 0>>, expected |-> "ASL $12,X"],
      [bytes |-> <<14, 52, 18>>, expected |-> "ASL $1234"],
      [bytes |-> <<30, 52, 18>>, expected |-> "ASL $1234,X"],
      [bytes |-> <<144, 18, 0>>, expected |-> "BCC branch_target_0"],
      [bytes |-> <<176, 18, 0>>, expected |-> "BCS branch_target_0"],
      [bytes |-> <<240, 18, 0>>, expected |-> "BEQ branch_target_0"],
      [bytes |-> <<48, 18, 0>>, expected |-> "BMI branch_target_0"],
      [bytes |-> <<208, 18, 0>>, expected |-> "BNE branch_target_0"],
      [bytes |-> <<16, 18, 0>>, expected |-> "BPL branch_target_0"],
      [bytes |-> <<80, 18, 0>>, expected |-> "BVC branch_target_0"],
      [bytes |-> <<112, 18, 0>>, expected |-> "BVS branch_target_0"],
      [bytes |-> <<36, 18, 0>>, expected |-> "BIT $12"],
      [bytes |-> <<44, 52, 18>>, expected |-> "BIT $1234"],
      [bytes |-> <<0, 0, 0>>, expected |-> "BRK"],
      [bytes |-> <<201, 18, 0>>, expected |-> "CMP #$12"],
      [bytes |-> <<197, 18, 0>>, expected |-> "CMP $12"],
      [bytes |-> <<213, 18, 0>>, expected |-> "CMP $12,X"],
      [bytes |-> <<205, 52, 18>>, expected |-> "CMP $1234"],
      [bytes |-> <<221, 52, 18>>, expected |-> "CMP $1234,X"],
      [bytes |-> <<217, 52, 18>>, expected |-> "CMP $1234,Y"],
      [bytes |-> <<193, 18, 0>>, expected |-> "CMP ($12,X)"],
      [bytes |-> <<209, 18, 0>>, expected |-> "CMP ($12),Y"],
      [bytes |-> <<224, 18, 0>>, expected |-> "CPX #$12"],
      [bytes |-> <<228, 18, 0>>, expected |-> "CPX $12"],
      [bytes |-> <<236, 52, 18>>, expected |-> "CPX $1234"],
      [bytes |-> <<192, 18, 0>>, expected |-> "CPY #$12"],
      [bytes |-> <<196, 18, 0>>, expected |-> "CPY $12"],
      [bytes |-> <<204, 52, 18>>, expected |-> "CPY $1234"],
      [bytes |-> <<198, 18, 0>>, expected |-> "DEC $12"],
      [bytes |-> <<214, 18, 0>>, expected |-> "DEC $12,X"],
      [bytes |-> <<206, 52, 18>>, expected |-> "DEC $1234"],
      [bytes |-> <<222, 52, 18>>, expected |-> "DEC $1234,X"],
      [bytes |-> <<73, 18, 0>>, expected |-> "EOR #$12"],
      [bytes |-> <<69, 18, 0>>, expected |-> "EOR $12"],
      [bytes |-> <<85, 18, 0>>, expected |-> "EOR $12,X"],
      [bytes |-> <<77, 52, 18>>, expected |-> "EOR $1234"],
      [bytes |-> <<93, 52, 18>>, expected |-> "EOR $1234,X"],
      [bytes |-> <<89, 52, 18>>, expected |-> "EOR $1234,Y"],
      [bytes |-> <<65, 18, 0>>, expected |-> "EOR ($12,X)"],
      [bytes |-> <<81, 18, 0>>, expected |-> "EOR ($12),Y"],
      [bytes |-> <<76, 0, 18>>, expected |-> "JMP jump_target_0"],
      [bytes |-> <<108, 52, 18>>, expected |-> "JMP ($1234)"],
      [bytes |-> <<32, 0, 18>>, expected |-> "JSR subroutine_0"],
      [bytes |-> <<96, 0, 0>>, expected |-> "RTS"],
      [bytes |-> <<64, 0, 0>>, expected |-> "RTI"],
      [bytes |-> <<234, 0, 0>>, expected |-> "NOP"],
      [bytes |-> <<72, 0, 0>>, expected |-> "PHA"],
      [bytes |-> <<8, 0, 0>>, expected |-> "PHP"],
      [bytes |-> <<104, 0, 0>>, expected |-> "PLA"],
      [bytes |-> <<40, 0, 0>>, expected |-> "PLP"],
      [bytes |-> <<56, 0, 0>>, expected |-> "SEC"],
      [bytes |-> <<248, 0, 0>>, expected |-> "SED"],
      [bytes |-> <<120, 0, 0>>, expected |-> "SEI"],
      [bytes |-> <<24, 0, 0>>, expected |-> "CLC"],
      [bytes |-> <<216, 0, 0>>, expected |-> "CLD"],
      [bytes |-> <<88, 0, 0>>, expected |-> "CLI"],
      [bytes |-> <<184, 0, 0>>, expected |-> "CLV"],
      [bytes |-> <<170, 0, 0>>, expected |-> "TAX"],
      [bytes |-> <<168, 0, 0>>, expected |-> "TAY"],
      [bytes |-> <<186, 0, 0>>, expected |-> "TSX"],
      [bytes |-> <<138, 0, 0>>, expected |-> "TXA"],
      [bytes |-> <<154, 0, 0>>, expected |-> "TXS"],
      [bytes |-> <<152, 0, 0>>, expected |-> "TYA"],
      [bytes |-> <<230, 18, 0>>, expected |-> "INC $12"],
      [bytes |-> <<246, 18, 0>>, expected |-> "INC $12,X"],
      [bytes |-> <<238, 52, 18>>, expected |-> "INC $1234"],
      [bytes |-> <<254, 52, 18>>, expected |-> "INC $1234,X"],
      [bytes |-> <<169, 18, 0>>, expected |-> "LDA #$12"],
      [bytes |-> <<165, 18, 0>>, expected |-> "LDA $12"],
      [bytes |-> <<181, 18, 0>>, expected |-> "LDA $12,X"],
      [bytes |-> <<173, 52, 18>>, expected |-> "LDA $1234"],
      [bytes |-> <<189, 52, 18>>, expected |-> "LDA $1234,X"],
      [bytes |-> <<185, 52, 18>>, expected |-> "LDA $1234,Y"],
      [bytes |-> <<161, 18, 0>>, expected |-> "LDA ($12,X)"],
      [bytes |-> <<177, 18, 0>>, expected |-> "LDA ($12),Y"],
      [bytes |-> <<162, 18, 0>>, expected |-> "LDX #$12"],
      [bytes |-> <<166, 18, 0>>, expected |-> "LDX $12"],
      [bytes |-> <<182, 18, 0>>, expected |-> "LDX $12,Y"],
      [bytes |-> <<174, 52, 18>>, expected |-> "LDX $1234"],
      [bytes |-> <<190, 52, 18>>, expected |-> "LDX $1234,Y"],
      [bytes |-> <<160, 18, 0>>, expected |-> "LDY #$12"],
      [bytes |-> <<164, 18, 0>>, expected |-> "LDY $12"],
      [bytes |-> <<180, 18, 0>>, expected |-> "LDY $12,X"],
      [bytes |-> <<172, 52, 18>>, expected |-> "LDY $1234"],
      [bytes |-> <<188, 52, 18>>, expected |-> "LDY $1234,X"],
      [bytes |-> <<74, 0, 0>>, expected |-> "LSR A"],
      [bytes |-> <<70, 18, 0>>, expected |-> "LSR $12"],
      [bytes |-> <<86, 18, 0>>, expected |-> "LSR $12,X"],
      [bytes |-> <<78, 52, 18>>, expected |-> "LSR $1234"],
      [bytes |-> <<94, 52, 18>>, expected |-> "LSR $1234,X"],
      [bytes |-> <<9, 18, 0>>, expected |-> "ORA #$12"],
      [bytes |-> <<5, 18, 0>>, expected |-> "ORA $12"],
      [bytes |-> <<21, 18, 0>>, expected |-> "ORA $12,X"],
      [bytes |-> <<13, 52, 18>>, expected |-> "ORA $1234"],
      [bytes |-> <<29, 52, 18>>, expected |-> "ORA $1234,X"],
      [bytes |-> <<25, 52, 18>>, expected |-> "ORA $1234,Y"],
      [bytes |-> <<1, 18, 0>>, expected |-> "ORA ($12,X)"],
      [bytes |-> <<17, 18, 0>>, expected |-> "ORA ($12),Y"],
      [bytes |-> <<42, 0, 0>>, expected |-> "ROL A"],
      [bytes |-> <<38, 18, 0>>, expected |-> "ROL $12"],
      [bytes |-> <<54, 18, 0>>, expected |-> "ROL $12,X"],
      [bytes |-> <<46, 52, 18>>, expected |-> "ROL $1234"],
      [bytes |-> <<62, 52, 18>>, expected |-> "ROL $1234,X"],
      [bytes |-> <<106, 0, 0>>, expected |-> "ROR A"],
      [bytes |-> <<102, 18, 0>>, expected |-> "ROR $12"],
      [bytes |-> <<118, 18, 0>>, expected |-> "ROR $12,X"],
      [bytes |-> <<110, 52, 18>>, expected |-> "ROR $1234"],
      [bytes |-> <<126, 52, 18>>, expected |-> "ROR $1234,X"],
      [bytes |-> <<233, 18, 0>>, expected |-> "SBC #$12"],
      [bytes |-> <<229, 18, 0>>, expected |-> "SBC $12"],
      [bytes |-> <<245, 18, 0>>, expected |-> "SBC $12,X"],
      [bytes |-> <<237, 52, 18>>, expected |-> "SBC $1234"],
      [bytes |-> <<253, 52, 18>>, expected |-> "SBC $1234,X"],
      [bytes |-> <<249, 52, 18>>, expected |-> "SBC $1234,Y"],
      [bytes |-> <<225, 18, 0>>, expected |-> "SBC ($12,X)"],
      [bytes |-> <<241, 18, 0>>, expected |-> "SBC ($12),Y"],
      [bytes |-> <<133, 18, 0>>, expected |-> "STA $12"],
      [bytes |-> <<149, 18, 0>>, expected |-> "STA $12,X"],
      [bytes |-> <<141, 52, 18>>, expected |-> "STA $1234"],
      [bytes |-> <<157, 52, 18>>, expected |-> "STA $1234,X"],
      [bytes |-> <<153, 52, 18>>, expected |-> "STA $1234,Y"],
      [bytes |-> <<129, 18, 0>>, expected |-> "STA ($12,X)"],
      [bytes |-> <<145, 18, 0>>, expected |-> "STA ($12),Y"],
      [bytes |-> <<134, 18, 0>>, expected |-> "STX $12"],
      [bytes |-> <<150, 18, 0>>, expected |-> "STX $12,Y"],
      [bytes |-> <<142, 52, 18>>, expected |-> "STX $1234"],
      [bytes |-> <<132, 18, 0>>, expected |-> "STY $12"],
      [bytes |-> <<148, 18, 0>>, expected |-> "STY $12,X"],
      [bytes |-> <<140, 52, 18>>, expected |-> "STY $1234"],
      [bytes |-> <<232, 0, 0>>, expected |-> "INX"],
      [bytes |-> <<200, 0, 0>>, expected |-> "INY"],
      [bytes |-> <<202, 0, 0>>, expected |-> "DEX"],
      [bytes |-> <<136, 0, 0>>, expected |-> "DEY"]
    }

TestWindows == {t.bytes : t \in Tests}

\* the opcodes whose arm renders create_u16(operand1, operand2) with
\* format_absolute_address
AbsoluteOperandOpcodes ==
    {op \in AllBytes : InstructionArm(op).operand = "absolute_address_formatted"}

\* 16-bit operands: the addresses format_absolute_address names, the
\* addresses next to them, and others
AbsoluteOperands ==
    (8191 .. 8200) \cup (16383 .. 16408) \cup {0, 255, 256, 4660, 43981, 65535}

AbsoluteOperandWindows ==
    {<<op, LowByte(word), HighByte(word)>> :
        op \in AbsoluteOperandOpcodes, word \in AbsoluteOperands}

\* the windows decoded: every opcode with a few operands, every displacement
\* for the branches, the windows of the unit tests, the 16-bit operands of
\* format_absolute_address, and windows that end before the third byte
Windows ==
    {<<op, o1, o2>> : op \in BranchOpcodes, o1 \in AllBytes, o2 \in {0}}
        \cup {<<op, o1, o2>> : op \in AllBytes, o1 \in Operand1Bytes,
                                o2 \in Operand2Bytes}
        \cup TestWindows
        \cup AbsoluteOperandWindows
        \cup {<<op, o1>> : op \in AllBytes, o1 \in {0}}
        \cup {<<op>> : op \in AllBytes}

WindowRom(bytes) ==
    [ len |-> Len(bytes),
      fill |-> 0,
      patch |-> [i \in 0 .. (Len(bytes) - 1) |-> bytes[i + 1]] ]

DecInit ==
    /\ mapper_id = 0
    /\ prg_rom_bank_count = 0
    /\ \E bytes \in Windows : prg_rom_contents = WindowRom(bytes)
    /\ global_labels = EmptyMap
    /\ labeller = LabellerNew
    /\ text_lines = EmptyMap
    /\ entry_points = << >>
    /\ current_address \in DecodeAddresses
    /\ contents_offset = 0
    /\ pc = "Call"
    /\ ret = None
    /\ decode_calls = << >>
    /\ requests = << >>
    /\ stdout = << >>

DecodeReturns ==
    /\ pc = "Call"
    /\ ~ DecodePanics(prg_rom_contents, contents_offset)
    /\ LET result == disassemble_instruction(prg_rom_contents, contents_offset,
                                             current_address, labeller)
       IN  /\ labeller' = result.labeller
           /\ ret' = [r \in {"is_section_complete", "instruction_bytes_count",
                             "text_line", "address_for_later_processing"} |->
                        result[r]]
           /\ decode_calls' = Append(decode_calls,
                 [ address |-> current_address,
                   is_section_complete |-> result.is_section_complete,
                   instruction_bytes_count |-> result.instruction_bytes_count,
                   text_line |-> result.text_line,
                   address_for_later_processing |->
                       result.address_for_later_processing ])
    /\ pc' = "Returned"
    /\ UNCHANGED <<mapper_id, prg_rom_bank_count, prg_rom_contents, global_labels,
                   text_lines, entry_points, current_address, contents_offset,
                   requests, stdout>>

DecodePanic ==
    /\ pc = "Call"
    /\ DecodePanics(prg_rom_contents, contents_offset)
    /\ pc' = "Panic"
    /\ UNCHANGED <<mapper_id, prg_rom_bank_count, prg_rom_contents, global_labels,
                   labeller, text_lines, entry_points, current_address,
                   contents_offset, ret, decode_calls, requests, stdout>>

DecNext ==
    \/ DecodeReturns
    \/ DecodePanic

DecSpec == DecInit /\ [][DecNext]_vars

---------------------------------------------------------------------------
(* Properties of the traversal driver (Spec) *)

\* the address lies in the program ROM as the driver maps it
MapsIntoRom(address) ==
    /\ address >= MappingBase
    /\ IndexInBounds(prg_rom_contents, address - MappingBase)

\* the entry point has been pushed: disassemble_from_entry_point is running
\* or has ended
TraversalStarted == pc \in {"Pop", "Run", "Panic", "Done"}

\* C1: the traversal ends in Done: once it has started, it is Done or it can
\* take its next step (it never stops, by a panic, short of Done).
C1_TraversalReachesDone == TraversalStarted => (pc = "Done" \/ ENABLED Next)

C3_DestinationsExplored ==
    pc = "Done" =>
        \A i \in 1 .. Len(decode_calls) :
            LET destination == decode_calls[i].address_for_later_processing
            IN  (destination # None /\ MapsIntoRom(destination[1]))
                    => destination[1] \in DOMAIN text_lines

\* the opcode under the cursor is read from the ROM and has no arm
MeetsUnsupportedOpcode ==
    /\ pc = "Run"
    /\ MapsIntoRom(current_address)
    /\ RomByte(prg_rom_contents, current_address - MappingBase) \notin SupportedOpcodes

UnknownOpcodeText(address, opcode) ==
    "\n***\nUNKNOWN OPCODE AT ADDRESS $" \o FormatHex(address, 4)
        \o ": $" \o FormatHex(opcode, 2) \o "\n***"

\* C9: when a run meets an unsupported opcode at address a, the step puts the
\* marker entry at a into the Listing, keeps every earlier entry, does not
\* abort, and the driver is back at the worklist.
C9_UnsupportedOpcodeIsLocal ==
    [][ MeetsUnsupportedOpcode =>
          /\ pc' = "Pop"
          /\ current_address \in DOMAIN text_lines'
          /\ text_lines'[current_address] =
                [ contents |->
                    "    " \o UnknownOpcodeText(current_address,
                        RomByte(prg_rom_contents, current_address - MappingBase))
                      \o "        # " \o FormatHex(current_address, 4) \o " |"
                      \o BytesTrailer(prg_rom_contents,
                                      current_address - MappingBase, 1),
                  bytes |-> 1 ]
          /\ \A a \in DOMAIN text_lines :
                a \in DOMAIN text_lines' /\ text_lines'[a] = text_lines[a]
      ]_vars

---------------------------------------------------------------------------
(* Properties of the label allocator (LabSpec) *)

\* the index of the first request of the pair (role, address)
FirstRequest(log, role, address) ==
    CHOOSE i \in 1 .. Len(log) :
        /\ log[i].role = role /\ log[i].address = address
        /\ \A j \in 1 .. (i - 1) : ~ (log[j].role = role /\ log[j].address = address)

AlreadyRequested(log, role, address) ==
    \E i \in 1 .. Len(log) : log[i].role = role /\ log[i].address = address

\* C4: a request of a pair requested before returns the label of the first
\* request and leaves the whole Labeller (all counters, all maps) as it was.
C4_IdempotentLabeling ==
    [][ (Len(requests') = Len(requests) + 1
            /\ AlreadyRequested(requests, requests'[Len(requests')].role,
                                requests'[Len(requests')].address))
        => LET request == requests'[Len(requests')]
               first == FirstRequest(requests, request.role, request.address)
           IN  /\ request.label = requests[first].label
               /\ ret' = requests[first].label
               /\ labeller' = labeller
      ]_vars

\* a pair has been requested twice, with a request of another pair between
C4_Witness ==
    \E i, j, k \in 1 .. Len(requests) :
        /\ i < j /\ j < k
        /\ requests[i].role = requests[k].role
        /\ requests[i].address = requests[k].address
        /\ requests[j].role = requests[i].role
        /\ requests[j].address # requests[i].address

RolePrefix(role) ==
    CASE role = "branch_target" -> "branch_target"
      [] role = "jump_target" -> "jump_target"
      [] role = "subroutine" -> "subroutine"

NextIdOf(role) ==
    CASE role = "branch_target" -> labeller.next_branch_target_id
      [] role = "jump_target" -> labeller.next_jump_target_id
      [] role = "subroutine" -> labeller.next_subroutine_id

LabelsOf(role) ==
    CASE role = "branch_target" -> labeller.branch_targets_to_labels
      [] role = "jump_target" -> labeller.jump_targets_to_labels
      [] role = "subroutine" -> labeller.subroutines_to_labels

Roles == {"branch_target", "jump_target", "subroutine"}

\* the addresses requested in `role` among the first n requests
AddressesRequested(role, n) ==
    {requests[j].address : j \in {k \in 1 .. n : requests[k].role = role}}

\* C5: every request returns {prefix}_{N-1}, N the rank of its address among
\* the distinct addresses of its role in first-request order, and the next
\* number of a role is the number of distinct addresses requested in it.
C5_SequentialNumbering ==
    /\ \A i \in 1 .. Len(requests) :
          LET role == requests[i].role
              first == FirstRequest(requests, role, requests[i].address)
              N == Cardinality(AddressesRequested(role, first))
          IN  requests[i].label = RolePrefix(role) \o "_" \o ToString(N - 1)
    /\ \A role \in Roles :
          NextIdOf(role) = Cardinality(AddressesRequested(role, Len(requests)))

\* jump_target_1 is handed out after a request in another role and after a
\* repeated request
C5_Witness ==
    \E i, j, k \in 1 .. Len(requests) :
        /\ i < k /\ j < k
        /\ requests[k].label = "jump_target_1"
        /\ requests[i].role # "jump_target"
        /\ FirstRequest(requests, requests[j].role, requests[j].address) < j

\* C6: distinct (role, address) pairs never share a label: in the maps of
\* the Labeller and among the labels the requests returned.
C6_LabelDistinctness ==
    /\ \A r1, r2 \in Roles :
          \A a1 \in DOMAIN LabelsOf(r1), a2 \in DOMAIN LabelsOf(r2) :
              (r1 # r2 \/ a1 # a2) => LabelsOf(r1)[a1] # LabelsOf(r2)[a2]
    /\ \A i, j \in 1 .. Len(requests) :
          (requests[i].role # requests[j].role
              \/ requests[i].address # requests[j].address)
            => requests[i].label # requests[j].label

\* one address holds a label in two roles, and one role labels two addresses
C6_Witness ==
    /\ \E a \in DOMAIN labeller.branch_targets_to_labels :
          a \in DOMAIN labeller.jump_targets_to_labels
    /\ Cardinality(DOMAIN labeller.jump_targets_to_labels) >= 2

---------------------------------------------------------------------------
(* Properties of the decoder (DecSpec) *)

CalledOpcode == RomByte(prg_rom_contents, contents_offset)
CalledOperand1 == RomByte(prg_rom_contents, contents_offset + 1)

\* C7 as stated: among the supported opcodes, is_section_complete is
\* returned true exactly for RTS ($60), RTI ($40) and JMP absolute ($4C).
C7_RunTerminatesAsStated ==
    (pc = "Returned" /\ CalledOpcode \in SupportedOpcodes)
        => (ret.is_section_complete <=> CalledOpcode \in {96, 64, 76})

\* C7 as amended: among the supported opcodes, is_section_complete is
\* returned true exactly for RTS ($60), RTI ($40), JMP absolute ($4C) and
\* JMP indirect ($6C).
C7_RunTerminates ==
    (pc = "Returned" /\ CalledOpcode \in SupportedOpcodes)
        => (ret.is_section_complete <=> CalledOpcode \in {96, 64, 76, 108})

\* a JMP absolute to its own address has returned, with the flag set
C7_Witness ==
    /\ pc = "Returned"
    /\ CalledOpcode = 76
    /\ ret.address_for_later_processing = Some(current_address)
    /\ ret.is_section_complete

\* C8: a decode call on an unsupported opcode does not crash and returns
\* is_section_complete = true, a length of 1, the marker text with the
\* address and the opcode, and no destination.
C8_UnsupportedOpcodeDecode ==
    (pc # "Call" /\ CalledOpcode \notin SupportedOpcodes)
        => /\ pc = "Returned"
           /\ ret.is_section_complete
           /\ ret.instruction_bytes_count = 1
           /\ ret.text_line =
                "    " \o UnknownOpcodeText(current_address, CalledOpcode)
                  \o "        # " \o FormatHex(current_address, 4) \o " |"
                  \o " " \o FormatHex(CalledOpcode, 2)
           /\ ret.address_for_later_processing = None

SignExt8(d) == IF d < 128 THEN d ELSE d - 256

\* C10: a conditional branch at address a with displacement byte d reports
\* the destination (a + 2 + signext8(d)) mod 2^16 and labels that address as
\* a branch target.
C10_RelativeBranchDestination ==
    (pc = "Returned" /\ CalledOpcode \in BranchOpcodes)
        => LET destination ==
                    (current_address + 2 + SignExt8(CalledOperand1)) % 65536
           IN  /\ ret.address_for_later_processing = Some(destination)
               /\ DOMAIN labeller.branch_targets_to_labels = {destination}

\* BCC with displacement $02 at $8000 has returned $8004
C10_Witness ==
    /\ pc = "Returned"
    /\ CalledOpcode = 144
    /\ CalledOperand1 = 2
    /\ current_address = 32768
    /\ ret.address_for_later_processing = Some(32772)

---------------------------------------------------------------------------
(* The official 6502 instruction set, as the reference the decoder is      *)
(* compared with: the 151 opcodes, each with its mnemonic and addressing   *)
(* mode.                                                                   *)

OfficialOpcodes ==
    {
      0, 1, 5, 6, 8, 9, 10, 13, 14, 16, 17, 21,
      22, 24, 25, 29, 30, 32, 33, 36, 37, 38, 40, 41,
      42, 44, 45, 46, 48, 49, 53, 54, 56, 57, 61, 62,
      64, 65, 69, 70, 72, 73, 74, 76, 77, 78, 80, 81,
      85, 86, 88, 89, 93, 94, 96, 97, 101, 102, 104, 105,
      106, 108, 109, 110, 112, 113, 117, 118, 120, 121, 125, 126,
      129, 132, 133, 134, 136, 138, 140, 141, 142, 144, 145, 148,
      149, 150, 152, 153, 154, 157, 160, 161, 162, 164, 165, 166,
      168, 169, 170, 172, 173, 174, 176, 177, 180, 181, 182, 184,
      185, 186, 188, 189, 190, 192, 193, 196, 197, 198, 200, 201,
      202, 204, 205, 206, 208, 209, 213, 214, 216, 217, 221, 222,
      224, 225, 228, 229, 230, 232, 233, 234, 236, 237, 238, 240,
      241, 245, 246, 248, 249, 253, 254
    }

OfficialInstruction(opcode) ==
    CASE opcode = 0 -> [mnemonic |-> "BRK", mode |-> "implied"]  \* 0x00
      [] opcode = 1 -> [mnemonic |-> "ORA", mode |-> "indexed_indirect"]  \* 0x01
      [] opcode = 5 -> [mnemonic |-> "ORA", mode |-> "zero_page"]  \* 0x05
      [] opcode = 6 -> [mnemonic |-> "ASL", mode |-> "zero_page"]  \* 0x06
      [] opcode = 8 -> [mnemonic |-> "PHP", mode |-> "implied"]  \* 0x08
      [] opcode = 9 -> [mnemonic |-> "ORA", mode |-> "immediate"]  \* 0x09
      [] opcode = 10 -> [mnemonic |-> "ASL", mode |-> "accumulator"]  \* 0x0A
      [] opcode = 13 -> [mnemonic |-> "ORA", mode |-> "absolute"]  \* 0x0D
      [] opcode = 14 -> [mnemonic |-> "ASL", mode |-> "absolute"]  \* 0x0E
      [] opcode = 16 -> [mnemonic |-> "BPL", mode |-> "relative"]  \* 0x10
      [] opcode = 17 -> [mnemonic |-> "ORA", mode |-> "indirect_indexed"]  \* 0x11
      [] opcode = 21 -> [mnemonic |-> "ORA", mode |-> "zero_page_x"]  \* 0x15
      [] opcode = 22 -> [mnemonic |-> "ASL", mode |-> "zero_page_x"]  \* 0x16
      [] opcode = 24 -> [mnemonic |-> "CLC", mode |-> "implied"]  \* 0x18
      [] opcode = 25 -> [mnemonic |-> "ORA", mode |-> "absolute_y"]  \* 0x19
      [] opcode = 29 -> [mnemonic |-> "ORA", mode |-> "absolute_x"]  \* 0x1D
      [] opcode = 30 -> [mnemonic |-> "ASL", mode |-> "absolute_x"]  \* 0x1E
      [] opcode = 32 -> [mnemonic |-> "JSR", mode |-> "absolute"]  \* 0x20
      [] opcode = 33 -> [mnemonic |-> "AND", mode |-> "indexed_indirect"]  \* 0x21
      [] opcode = 36 -> [mnemonic |-> "BIT", mode |-> "zero_page"]  \* 0x24
      [] opcode = 37 -> [mnemonic |-> "AND", mode |-> "zero_page"]  \* 0x25
      [] opcode = 38 -> [mnemonic |-> "ROL", mode |-> "zero_page"]  \* 0x26
      [] opcode = 40 -> [mnemonic |-> "PLP", mode |-> "implied"]  \* 0x28
      [] opcode = 41 -> [mnemonic |-> "AND", mode |-> "immediate"]  \* 0x29
      [] opcode = 42 -> [mnemonic |-> "ROL", mode |-> "accumulator"]  \* 0x2A
      [] opcode = 44 -> [mnemonic |-> "BIT", mode |-> "absolute"]  \* 0x2C
      [] opcode = 45 -> [mnemonic |-> "AND", mode |-> "absolute"]  \* 0x2D
      [] opcode = 46 -> [mnemonic |-> "ROL", mode |-> "absolute"]  \* 0x2E
      [] opcode = 48 -> [mnemonic |-> "BMI", mode |-> "relative"]  \* 0x30
      [] opcode = 49 -> [mnemonic |-> "AND", mode |-> "indirect_indexed"]  \* 0x31
      [] opcode = 53 -> [mnemonic |-> "AND", mode |-> "zero_page_x"]  \* 0x35
      [] opcode = 54 -> [mnemonic |-> "ROL", mode |-> "zero_page_x"]  \* 0x36
      [] opcode = 56 -> [mnemonic |-> "SEC", mode |-> "implied"]  \* 0x38
      [] opcode = 57 -> [mnemonic |-> "AND", mode |-> "absolute_y"]  \* 0x39
      [] opcode = 61 -> [mnemonic |-> "AND", mode |-> "absolute_x"]  \* 0x3D
      [] opcode = 62 -> [mnemonic |-> "ROL", mode |-> "absolute_x"]  \* 0x3E
      [] opcode = 64 -> [mnemonic |-> "RTI", mode |-> "implied"]  \* 0x40
      [] opcode = 65 -> [mnemonic |-> "EOR", mode |-> "indexed_indirect"]  \* 0x41
      [] opcode = 69 -> [mnemonic |-> "EOR", mode |-> "zero_page"]  \* 0x45
      [] opcode = 70 -> [mnemonic |-> "LSR", mode |-> "zero_page"]  \* 0x46
      [] opcode = 72 -> [mnemonic |-> "PHA", mode |-> "implied"]  \* 0x48
      [] opcode = 73 -> [mnemonic |-> "EOR", mode |-> "immediate"]  \* 0x49
      [] opcode = 74 -> [mnemonic |-> "LSR", mode |-> "accumulator"]  \* 0x4A
      [] opcode = 76 -> [mnemonic |-> "JMP", mode |-> "absolute"]  \* 0x4C
      [] opcode = 77 -> [mnemonic |-> "EOR", mode |-> "absolute"]  \* 0x4D
      [] opcode = 78 -> [mnemonic |-> "LSR", mode |-> "absolute"]  \* 0x4E
      [] opcode = 80 -> [mnemonic |-> "BVC", mode |-> "relative"]  \* 0x50
      [] opcode = 81 -> [mnemonic |-> "EOR", mode |-> "indirect_indexed"]  \* 0x51
      [] opcode = 85 -> [mnemonic |-> "EOR", mode |-> "zero_page_x"]  \* 0x55
      [] opcode = 86 -> [mnemonic |-> "LSR", mode |-> "zero_page_x"]  \* 0x56
      [] opcode = 88 -> [mnemonic |-> "CLI", mode |-> "implied"]  \* 0x58
      [] opcode = 89 -> [mnemonic |-> "EOR", mode |-> "absolute_y"]  \* 0x59
      [] opcode = 93 -> [mnemonic |-> "EOR", mode |-> "absolute_x"]  \* 0x5D
      [] opcode = 94 -> [mnemonic |-> "LSR", mode |-> "absolute_x"]  \* 0x5E
      [] opcode = 96 -> [mnemonic |-> "RTS", mode |-> "implied"]  \* 0x60
      [] opcode = 97 -> [mnemonic |-> "ADC", mode |-> "indexed_indirect"]  \* 0x61
      [] opcode = 101 -> [mnemonic |-> "ADC", mode |-> "zero_page"]  \* 0x65
      [] opcode = 102 -> [mnemonic |-> "ROR", mode |-> "zero_page"]  \* 0x66
      [] opcode = 104 -> [mnemonic |-> "PLA", mode |-> "implied"]  \* 0x68
      [] opcode = 105 -> [mnemonic |-> "ADC", mode |-> "immediate"]  \* 0x69
      [] opcode = 106 -> [mnemonic |-> "ROR", mode |-> "accumulator"]  \* 0x6A
      [] opcode = 108 -> [mnemonic |-> "JMP", mode |-> "indirect"]  \* 0x6C
      [] opcode = 109 -> [mnemonic |-> "ADC", mode |-> "absolute"]  \* 0x6D
      [] opcode = 110 -> [mnemonic |-> "ROR", mode |-> "absolute"]  \* 0x6E
      [] opcode = 112 -> [mnemonic |-> "BVS", mode |-> "relative"]  \* 0x70
      [] opcode = 113 -> [mnemonic |-> "ADC", mode |-> "indirect_indexed"]  \* 0x71
      [] opcode = 117 -> [mnemonic |-> "ADC", mode |-> "zero_page_x"]  \* 0x75
      [] opcode = 118 -> [mnemonic |-> "ROR", mode |-> "zero_page_x"]  \* 0x76
      [] opcode = 120 -> [mnemonic |-> "SEI", mode |-> "implied"]  \* 0x78
      [] opcode = 121 -> [mnemonic |-> "ADC", mode |-> "absolute_y"]  \* 0x79
      [] opcode = 125 -> [mnemonic |-> "ADC", mode |-> "absolute_x"]  \* 0x7D
      [] opcode = 126 -> [mnemonic |-> "ROR", mode |-> "absolute_x"]  \* 0x7E
      [] opcode = 129 -> [mnemonic |-> "STA", mode |-> "indexed_indirect"]  \* 0x81
      [] opcode = 132 -> [mnemonic |-> "STY", mode |-> "zero_page"]  \* 0x84
      [] opcode = 133 -> [mnemonic |-> "STA", mode |-> "zero_page"]  \* 0x85
      [] opcode = 134 -> [mnemonic |-> "STX", mode |-> "zero_page"]  \* 0x86
      [] opcode = 136 -> [mnemonic |-> "DEY", mode |-> "implied"]  \* 0x88
      [] opcode = 138 -> [mnemonic |-> "TXA", mode |-> "implied"]  \* 0x8A
      [] opcode = 140 -> [mnemonic |-> "STY", mode |-> "absolute"]  \* 0x8C
      [] opcode = 141 -> [mnemonic |-> "STA", mode |-> "absolute"]  \* 0x8D
      [] opcode = 142 -> [mnemonic |-> "STX", mode |-> "absolute"]  \* 0x8E
      [] opcode = 144 -> [mnemonic |-> "BCC", mode |-> "relative"]  \* 0x90
      [] opcode = 145 -> [mnemonic |-> "STA", mode |-> "indirect_indexed"]  \* 0x91
      [] opcode = 148 -> [mnemonic |-> "STY", mode |-> "zero_page_x"]  \* 0x94
      [] opcode = 149 -> [mnemonic |-> "STA", mode |-> "zero_page_x"]  \* 0x95
      [] opcode = 150 -> [mnemonic |-> "STX", mode |-> "zero_page_y"]  \* 0x96
      [] opcode = 152 -> [mnemonic |-> "TYA", mode |-> "implied"]  \* 0x98
      [] opcode = 153 -> [mnemonic |-> "STA", mode |-> "absolute_y"]  \* 0x99
      [] opcode = 154 -> [mnemonic |-> "TXS", mode |-> "implied"]  \* 0x9A
      [] opcode = 157 -> [mnemonic |-> "STA", mode |-> "absolute_x"]  \* 0x9D
      [] opcode = 160 -> [mnemonic |-> "LDY", mode |-> "immediate"]  \* 0xA0
      [] opcode = 161 -> [mnemonic |-> "LDA", mode |-> "indexed_indirect"]  \* 0xA1
      [] opcode = 162 -> [mnemonic |-> "LDX", mode |-> "immediate"]  \* 0xA2
      [] opcode = 164 -> [mnemonic |-> "LDY", mode |-> "zero_page"]  \* 0xA4
      [] opcode = 165 -> [mnemonic |-> "LDA", mode |-> "zero_page"]  \* 0xA5
      [] opcode = 166 -> [mnemonic |-> "LDX", mode |-> "zero_page"]  \* 0xA6
      [] opcode = 168 -> [mnemonic |-> "TAY", mode |-> "implied"]  \* 0xA8
      [] opcode = 169 -> [mnemonic |-> "LDA", mode |-> "immediate"]  \* 0xA9
      [] opcode = 170 -> [mnemonic |-> "TAX", mode |-> "implied"]  \* 0xAA
      [] opcode = 172 -> [mnemonic |-> "LDY", mode |-> "absolute"]  \* 0xAC
      [] opcode = 173 -> [mnemonic |-> "LDA", mode |-> "absolute"]  \* 0xAD
      [] opcode = 174 -> [mnemonic |-> "LDX", mode |-> "absolute"]  \* 0xAE
      [] opcode = 176 -> [mnemonic |-> "BCS", mode |-> "relative"]  \* 0xB0
      [] opcode = 177 -> [mnemonic |-> "LDA", mode |-> "indirect_indexed"]  \* 0xB1
      [] opcode = 180 -> [mnemonic |-> "LDY", mode |-> "zero_page_x"]  \* 0xB4
      [] opcode = 181 -> [mnemonic |-> "LDA", mode |-> "zero_page_x"]  \* 0xB5
      [] opcode = 182 -> [mnemonic |-> "LDX", mode |-> "zero_page_y"]  \* 0xB6
      [] opcode = 184 -> [mnemonic |-> "CLV", mode |-> "implied"]  \* 0xB8
      [] opcode = 185 -> [mnemonic |-> "LDA", mode |-> "absolute_y"]  \* 0xB9
      [] opcode = 186 -> [mnemonic |-> "TSX", mode |-> "implied"]  \* 0xBA
      [] opcode = 188 -> [mnemonic |-> "LDY", mode |-> "absolute_x"]  \* 0xBC
      [] opcode = 189 -> [mnemonic |-> "LDA", mode |-> "absolute_x"]  \* 0xBD
      [] opcode = 190 -> [mnemonic |-> "LDX", mode |-> "absolute_y"]  \* 0xBE
      [] opcode = 192 -> [mnemonic |-> "CPY", mode |-> "immediate"]  \* 0xC0
      [] opcode = 193 -> [mnemonic |-> "CMP", mode |-> "indexed_indirect"]  \* 0xC1
      [] opcode = 196 -> [mnemonic |-> "CPY", mode |-> "zero_page"]  \* 0xC4
      [] opcode = 197 -> [mnemonic |-> "CMP", mode |-> "zero_page"]  \* 0xC5
      [] opcode = 198 -> [mnemonic |-> "DEC", mode |-> "zero_page"]  \* 0xC6
      [] opcode = 200 -> [mnemonic |-> "INY", mode |-> "implied"]  \* 0xC8
      [] opcode = 201 -> [mnemonic |-> "CMP", mode |-> "immediate"]  \* 0xC9
      [] opcode = 202 -> [mnemonic |-> "DEX", mode |-> "implied"]  \* 0xCA
      [] opcode = 204 -> [mnemonic |-> "CPY", mode |-> "absolute"]  \* 0xCC
      [] opcode = 205 -> [mnemonic |-> "CMP", mode |-> "absolute"]  \* 0xCD
      [] opcode = 206 -> [mnemonic |-> "DEC", mode |-> "absolute"]  \* 0xCE
      [] opcode = 208 -> [mnemonic |-> "BNE", mode |-> "relative"]  \* 0xD0
      [] opcode = 209 -> [mnemonic |-> "CMP", mode |-> "indirect_indexed"]  \* 0xD1
      [] opcode = 213 -> [mnemonic |-> "CMP", mode |-> "zero_page_x"]  \* 0xD5
      [] opcode = 214 -> [mnemonic |-> "DEC", mode |-> "zero_page_x"]  \* 0xD6
      [] opcode = 216 -> [mnemonic |-> "CLD", mode |-> "implied"]  \* 0xD8
      [] opcode = 217 -> [mnemonic |-> "CMP", mode |-> "absolute_y"]  \* 0xD9
      [] opcode = 221 -> [mnemonic |-> "CMP", mode |-> "absolute_x"]  \* 0xDD
      [] opcode = 222 -> [mnemonic |-> "DEC", mode |-> "absolute_x"]  \* 0xDE
      [] opcode = 224 -> [mnemonic |-> "CPX", mode |-> "immediate"]  \* 0xE0
      [] opcode = 225 -> [mnemonic |-> "SBC", mode |-> "indexed_indirect"]  \* 0xE1
      [] opcode = 228 -> [mnemonic |-> "CPX", mode |-> "zero_page"]  \* 0xE4
      [] opcode = 229 -> [mnemonic |-> "SBC", mode |-> "zero_page"]  \* 0xE5
      [] opcode = 230 -> [mnemonic |-> "INC", mode |-> "zero_page"]  \* 0xE6
      [] opcode = 232 -> [mnemonic |-> "INX", mode |-> "implied"]  \* 0xE8
      [] opcode = 233 -> [mnemonic |-> "SBC", mode |-> "immediate"]  \* 0xE9
      [] opcode = 234 -> [mnemonic |-> "NOP", mode |-> "implied"]  \* 0xEA
      [] opcode = 236 -> [mnemonic |-> "CPX", mode |-> "absolute"]  \* 0xEC
      [] opcode = 237 -> [mnemonic |-> "SBC", mode |-> "absolute"]  \* 0xED
      [] opcode = 238 -> [mnemonic |-> "INC", mode |-> "absolute"]  \* 0xEE
      [] opcode = 240 -> [mnemonic |-> "BEQ", mode |-> "relative"]  \* 0xF0
      [] opcode = 241 -> [mnemonic |-> "SBC", mode |-> "indirect_indexed"]  \* 0xF1
      [] opcode = 245 -> [mnemonic |-> "SBC", mode |-> "zero_page_x"]  \* 0xF5
      [] opcode = 246 -> [mnemonic |-> "INC", mode |-> "zero_page_x"]  \* 0xF6
      [] opcode = 248 -> [mnemonic |-> "SED", mode |-> "implied"]  \* 0xF8
      [] opcode = 249 -> [mnemonic |-> "SBC", mode |-> "absolute_y"]  \* 0xF9
      [] opcode = 253 -> [mnemonic |-> "SBC", mode |-> "absolute_x"]  \* 0xFD
      [] opcode = 254 -> [mnemonic |-> "INC", mode |-> "absolute_x"]  \* 0xFE

\* the length of an instruction by its addressing mode
ModeLength(mode) ==
    CASE mode \in {"implied", "accumulator"} -> 1
      [] mode \in {"immediate", "zero_page", "zero_page_x", "zero_page_y",
                   "relative", "indexed_indirect", "indirect_indexed"} -> 2
      [] mode \in {"absolute", "absolute_x", "absolute_y", "indirect"} -> 3

(* Text helpers *)

StartsWith(text, prefix) ==
    Len(text) >= Len(prefix) /\ SubSeq(text, 1, Len(prefix)) = prefix

EndsWith(text, suffix) ==
    Len(text) >= Len(suffix)
        /\ SubSeq(text, Len(text) - Len(suffix) + 1, Len(text)) = suffix

Contains(text, part) ==
    \E i \in 1 .. (Len(text) - Len(part) + 1) :
        SubSeq(text, i, i + Len(part) - 1) = part

CalledOperand2 == RomByte(prg_rom_contents, contents_offset + 2)

---------------------------------------------------------------------------
(* Properties of the decoder (DecSpec), continued *)

\* C11: a conditional branch, JSR and JMP absolute each register their
\* destination in one role only (branch target, subroutine, jump target):
\* the Labeller holds that one label, the text names the label in place of
\* the address, and the same address is the reported destination.
C11_ControlFlowClassification ==
    (pc = "Returned" /\ CalledOpcode \in BranchOpcodes \cup {32, 76})
        => LET role == CASE CalledOpcode = 32 -> "subroutine"
                         [] CalledOpcode = 76 -> "jump_target"
                         [] OTHER -> "branch_target"
               destination ==
                    IF role = "branch_target"
                    THEN (current_address + 2 + SignExt8(CalledOperand1)) % 65536
                    ELSE CalledOperand1 + (256 * CalledOperand2)
               label == RolePrefix(role) \o "_0"
           IN  /\ \A r \in Roles :
                     DOMAIN LabelsOf(r) = IF r = role THEN {destination} ELSE {}
               /\ LabelsOf(role)[destination] = label
               /\ StartsWith(ret.text_line,
                     "    " \o OfficialInstruction(CalledOpcode).mnemonic \o " "
                        \o label \o "        # ")
               /\ ret.address_for_later_processing = Some(destination)

\* JSR $8012 has returned, the subroutine label allocated for $8012
C11_Witness ==
    /\ pc = "Returned"
    /\ CalledOpcode = 32
    /\ ret.address_for_later_processing = Some(32786)
    /\ get_subroutine_label(labeller, 32786) = Some("subroutine_0")

\* the byte at contents_offset + i, as the trailer prints it
TrailerByte(i) == " " \o FormatHex(RomByte(prg_rom_contents, contents_offset + i), 2)

\* C12: the length decode returns is 1, 2 or 3 and the text ends with the
\* hex dump of exactly that many bytes: those at contents_offset,
\* contents_offset + 1, ... in order.
C12_LengthMatchesTrailer ==
    pc = "Returned"
        => /\ ret.instruction_bytes_count \in {1, 2, 3}
           /\ EndsWith(ret.text_line,
                 " |" \o (CASE ret.instruction_bytes_count = 1 -> TrailerByte(0)
                            [] ret.instruction_bytes_count = 2 ->
                                  TrailerByte(0) \o TrailerByte(1)
                            [] OTHER ->
                                  TrailerByte(0) \o TrailerByte(1) \o TrailerByte(2)))

\* ADC #$12 has returned with length 2 and the trailer " 69 12"
C12_Witness ==
    /\ pc = "Returned"
    /\ CalledOpcode = 105
    /\ ret.instruction_bytes_count = 2
    /\ EndsWith(ret.text_line, " | 69 12")

\* the addresses format_absolute_address is to name: $2000-$2007,
\* $4000-$4008, $400A-$400C, $400E-$4017
NamedRegisters ==
    (8192 .. 8199) \cup (16384 .. 16392) \cup (16394 .. 16396) \cup (16398 .. 16407)

CalledAbsoluteOperand == CalledOperand1 + (256 * CalledOperand2)

\* the window decoded, when it has three bytes
CalledWindow == <<CalledOpcode, CalledOperand1, CalledOperand2>>

\* the assembly syntax of an instruction by its addressing mode; a control
\* transfer names the first label of its role
ReferenceSyntax(opcode) ==
    LET mnemonic == OfficialInstruction(opcode).mnemonic
        mode == OfficialInstruction(opcode).mode
        byte == "$" \o FormatHex(CalledOperand1, 2)
        word == "$" \o FormatHex(CalledAbsoluteOperand, 4)
    IN  CASE mode = "implied" -> mnemonic
          [] mode = "accumulator" -> mnemonic \o " A"
          [] mode = "immediate" -> mnemonic \o " #" \o byte
          [] mode = "zero_page" -> mnemonic \o " " \o byte
          [] mode = "zero_page_x" -> mnemonic \o " " \o byte \o ",X"
          [] mode = "zero_page_y" -> mnemonic \o " " \o byte \o ",Y"
          [] mode = "indexed_indirect" -> mnemonic \o " (" \o byte \o ",X)"
          [] mode = "indirect_indexed" -> mnemonic \o " (" \o byte \o "),Y"
          [] mode = "relative" -> mnemonic \o " branch_target_0"
          [] mode = "absolute" /\ opcode = 32 -> mnemonic \o " subroutine_0"
          [] mode = "absolute" /\ opcode = 76 -> mnemonic \o " jump_target_0"
          [] mode = "absolute" /\ opcode \notin {32, 76} -> mnemonic \o " " \o word
          [] mode = "absolute_x" -> mnemonic \o " " \o word \o ",X"
          [] mode = "absolute_y" -> mnemonic \o " " \o word \o ",Y"
          [] mode = "indirect" -> mnemonic \o " (" \o word \o ")"

\* the operand is a 16-bit address that format_absolute_address renders
RendersAbsoluteOperand(opcode) ==
    /\ OfficialInstruction(opcode).mode
          \in {"absolute", "absolute_x", "absolute_y", "indirect"}
    /\ opcode \notin {32, 76}

\* C13: the opcodes with an arm of their own are the 151 official opcodes;
\* each returns the length of its addressing mode and the mnemonic and
\* operand syntax of that mode (for an operand that is a named register:
\* the mnemonic), and every unit test finds its expected text.
C13_OpcodeTotality ==
    /\ SupportedOpcodes = OfficialOpcodes
    /\ Cardinality(SupportedOpcodes) = 151
    /\ (pc = "Returned" /\ CalledOpcode \in OfficialOpcodes)
          => /\ ~ Contains(ret.text_line, "UNKNOWN OPCODE")
             /\ ret.instruction_bytes_count =
                   ModeLength(OfficialInstruction(CalledOpcode).mode)
             /\ IF RendersAbsoluteOperand(CalledOpcode)
                      /\ CalledAbsoluteOperand \in NamedRegisters
                THEN StartsWith(ret.text_line,
                        "    " \o OfficialInstruction(CalledOpcode).mnemonic \o " ")
                ELSE StartsWith(ret.text_line,
                        "    " \o ReferenceSyntax(CalledOpcode) \o "        # ")
    /\ (pc = "Returned" /\ current_address = 32768)
          => \A t \in {u \in Tests : u.bytes = CalledWindow} :
                Contains(ret.text_line, t.expected)

\* the test adc_abs has run: bytes 6D 34 12 give "ADC $1234" and length 3
C13_Witness ==
    /\ pc = "Returned"
    /\ current_address = 32768
    /\ CalledWindow = <<109, 52, 18>>
    /\ ret.instruction_bytes_count = 3
    /\ Contains(ret.text_line, "ADC $1234")

\* the role a lookup position asks about
LookupRole(position) ==
    CASE position = "get_branch_target_label" -> "branch_target"
      [] position = "get_jump_target_label" -> "jump_target"
      [] position = "get_subroutine_label" -> "subroutine"

\* the requests made for a pair (role, address), by their index
RequestsFor(role, address) ==
    {i \in 1 .. Len(requests) :
        requests[i].role = role /\ requests[i].address = address}

\* C14: a lookup returns the label first allocated for the pair (role,
\* address) when the pair was requested earlier and none otherwise, and it
\* leaves the three maps, the three counters and the requests unchanged.
C14_LookupIsPure ==
    [][pc' \in LookupPositions
         => LET earlier == RequestsFor(LookupRole(pc'), current_address')
            IN  /\ labeller' = labeller
                /\ requests' = requests
                /\ ret' = IF earlier = {}
                             THEN None
                             ELSE Some(requests[CHOOSE i \in earlier :
                                          \A j \in earlier : i <= j].label)]_vars

\* a lookup has found the label of a requested jump target, and the same
\* address was requested as a branch target before
C14_Witness ==
    /\ pc = "get_jump_target_label"
    /\ current_address = 32768
    /\ ret = Some("jump_target_0")
    /\ RequestsFor("branch_target", 32768) # {}
    /\ RequestsFor("subroutine", 32768) = {}

\* C15: a cartridge whose mapper id is not 0 never gets past the mapper
\* check: the session is at its start or aborted, no vector has seeded the
\* traversal, no decode call was made, and the listing and the labeller are
\* empty.
C15_UnsupportedMapperIsFatal ==
    mapper_id # 0
        => /\ pc \in {"Loaded", "MapperPanic"}
           /\ global_labels = EmptyMap
           /\ entry_points = << >>
           /\ decode_calls = << >>
           /\ text_lines = EmptyMap
           /\ labeller = LabellerNew

\* the session of a mapper-1 cartridge has aborted
C15_Witness ==
    /\ pc = "MapperPanic"
    /\ mapper_id = 1
    /\ text_lines = EmptyMap
    /\ labeller = LabellerNew

\* what follows the operand in the syntax of a mode with a 16-bit operand
AbsoluteOperandSuffix(mode) ==
    CASE mode = "absolute" -> ""
      [] mode = "absolute_x" -> ",X"
      [] mode = "absolute_y" -> ",Y"
      [] mode = "indirect" -> ")"

\* what precedes the operand in the text of an instruction with a 16-bit
\* operand
AbsoluteOperandPrefix(opcode) ==
    "    " \o OfficialInstruction(opcode).mnemonic
           \o (IF OfficialInstruction(opcode).mode = "indirect" THEN " (" ELSE " ")

ByteOperandModes ==
    {"immediate", "zero_page", "zero_page_x", "zero_page_y",
     "indexed_indirect", "indirect_indexed"}

\* C16: the 16-bit operand of an absolute, absolute,X, absolute,Y or indirect
\* instruction is rendered as a register name ending in _ and the four hex
\* digits of the value when the value is in the named register set
\* (PpuControl_2000 for 0x2000), and as $ and four upper-case hex digits
\* otherwise; an immediate or zero-page operand is rendered as $ and two hex
\* digits.
C16_AbsoluteOperandRendering ==
    (pc = "Returned" /\ CalledOpcode \in OfficialOpcodes)
        => LET mode == OfficialInstruction(CalledOpcode).mode
               prefix == AbsoluteOperandPrefix(CalledOpcode)
               rest == AbsoluteOperandSuffix(mode) \o "        # "
               hex == FormatHex(CalledAbsoluteOperand, 4)
           IN  /\ (RendersAbsoluteOperand(CalledOpcode)
                      /\ CalledAbsoluteOperand \in NamedRegisters)
                     => /\ StartsWith(ret.text_line, prefix)
                        /\ ~ StartsWith(ret.text_line, prefix \o "$")
                        /\ ~ StartsWith(ret.text_line, prefix \o "_")
                        /\ Contains(ret.text_line, "_" \o hex \o rest)
                        /\ CalledAbsoluteOperand = 8192
                              => StartsWith(ret.text_line,
                                            prefix \o "PpuControl_2000" \o rest)
               /\ (RendersAbsoluteOperand(CalledOpcode)
                      /\ CalledAbsoluteOperand \notin NamedRegisters)
                     => StartsWith(ret.text_line, prefix \o "$" \o hex \o rest)
               /\ mode \in ByteOperandModes
                     => StartsWith(ret.text_line,
                           "    " \o ReferenceSyntax(CalledOpcode) \o "        # ")

\* STA $2000 is rendered with the register name
C16_Witness ==
    /\ pc = "Returned"
    /\ CalledWindow = <<141, 0, 32>>
    /\ StartsWith(ret.text_line, "    STA PpuControl_2000        # ")

\* an operand next to the named registers is rendered with hex digits
C16_WitnessHex ==
    /\ pc = "Returned"
    /\ CalledWindow = <<189, 9, 64>>
    /\ StartsWith(ret.text_line, "    LDA $4009,X        # ")

\* the opcode byte of the i-th decode call of the session
DecodedOpcode(i) ==
    RomByte(prg_rom_contents, decode_calls[i].address - MappingBase)

LastCall == decode_calls[Len(decode_calls)]

\* C17: a decode call that does not end the run is followed by the decode of
\* the address just after its instruction; a conditional branch or a JSR does
\* not end the run; the cursor of a run that goes on is just after the last
\* instruction decoded, and a run has ended only after an instruction whose
\* is_section_complete is true.
C17_StraightLineWalk ==
    /\ \A i \in 1 .. Len(decode_calls) :
          /\ DecodedOpcode(i) \in BranchOpcodes \cup {32}
                => ~ decode_calls[i].is_section_complete
          /\ i < Len(decode_calls)
                => /\ ~ decode_calls[i].is_section_complete
                   /\ decode_calls[i + 1].address =
                         decode_calls[i].address
                            + decode_calls[i].instruction_bytes_count
    /\ (pc = "Run" /\ decode_calls # << >>)
          => /\ ~ LastCall.is_section_complete
             /\ current_address = LastCall.address + LastCall.instruction_bytes_count
    /\ (pc \in {"Pop", "Done"} /\ decode_calls # << >>)
          => LastCall.is_section_complete

\* a conditional branch (BCC) was followed by the decode of its fall-through
\* address, and the run has ended after three decodes or more
C17_Witness ==
    /\ pc = "Done"
    /\ Len(decode_calls) >= 3
    /\ \E i \in 1 .. (Len(decode_calls) - 1) :
          /\ DecodedOpcode(i) = 144
          /\ decode_calls[i].instruction_bytes_count = 2
          /\ decode_calls[i + 1].address = decode_calls[i].address + 2

\* the length of the instruction an opcode byte starts: that of its
\* addressing mode, and 1 for a byte that is no official opcode
RealLength(opcode) ==
    IF opcode \in OfficialOpcodes
    THEN ModeLength(OfficialInstruction(opcode).mode)
    ELSE 1

\* C18: a decode call whose instruction, by its real length, lies inside the
\* ROM returns (it does not abort on an out-of-range read); so does a 1-byte
\* instruction at the last byte and a 2-byte instruction at the last two.
C18_DecoderReadsInBounds ==
    (pc # "Call"
       /\ contents_offset + RealLength(CalledOpcode) <= prg_rom_contents.len)
        => /\ pc = "Returned"
           /\ ret.instruction_bytes_count = RealLength(CalledOpcode)

\* C19: every address the driver is about to decode, and every address it
\* has decoded, is translated to the content offset address - 0x8000, and
\* that offset is a position of prg_rom_contents.
C19_AddressTranslation ==
    /\ pc = "Run"
          => /\ current_address >= MappingBase
             /\ current_address - MappingBase < RomLen(prg_rom_contents)
    /\ \A i \in 1 .. Len(decode_calls) : MapsIntoRom(decode_calls[i].address)

\* the little-endian word at offset `at` of the program ROM
WordAt(at) ==
    RomByte(prg_rom_contents, at) + (256 * RomByte(prg_rom_contents, at + 1))

\* the vectors are the three words at `base`, and the traversal is seeded with
\* the second of them: it is the one global label, RESET, the first entry
\* point and the first address decoded
VectorsReadAt(base) ==
    /\ nmi_vector = WordAt(base)
    /\ reset_vector = WordAt(base + 2)
    /\ irq_vector = WordAt(base + 4)
    /\ TraversalStarted
          => /\ DOMAIN global_labels = {WordAt(base + 2)}
             /\ global_labels[WordAt(base + 2)] = "RESET"
             /\ (pc = "Pop" /\ decode_calls = << >>)
                   => entry_points = <<WordAt(base + 2)>>
             /\ (pc = "Run" /\ decode_calls = << >>)
                   => current_address = WordAt(base + 2)
             /\ decode_calls # << >>
                   => decode_calls[1].address = WordAt(base + 2)

\* C20 as stated: for a mapper-0 cartridge of any number of banks, the
\* vectors are the three little-endian words in the last six bytes of the
\* program ROM, and the traversal is seeded with the reset vector.
C20_EntryVectorsAsStated ==
    mapper_id = 0 => VectorsReadAt(RomLen(prg_rom_contents) - 6)

\* C20: for a mapper-0 cartridge of one or two banks, the vectors are the
\* three little-endian words in the last six bytes of the program ROM; for
\* more banks they are the last six bytes of the second bank; the traversal
\* is seeded with the reset vector so read.
C20_EntryVectors ==
    mapper_id = 0
        => VectorsReadAt(IF prg_rom_bank_count <= 2
                         THEN RomLen(prg_rom_contents) - 6
                         ELSE (2 * PrgBankSize) - 6)

\* the run of a two-bank cartridge is about to start at the reset vector
\* stored as 01 80 in the last six bytes
C20_Witness ==
    /\ pc = "Run"
    /\ mapper_id = 0
    /\ prg_rom_bank_count = 2
    /\ decode_calls = << >>
    /\ RomByte(prg_rom_contents, 32764) = 1
    /\ RomByte(prg_rom_contents, 32765) = 128
    /\ current_address = 32769
    /\ MapGet(global_labels, 32769) = Some("RESET")

\* C21: the traversal starts with an empty listing and the reset vector as
\* its one entry point; when the session of a mapper-0 cartridge is Done the
\* listing has an entry at the reset vector and the reset vector carries the
\* global label RESET.
C21_ResetVectorExplored ==
    /\ pc = "Loaded" => (text_lines = EmptyMap /\ entry_points = << >>)
    /\ (pc = "Pop" /\ decode_calls = << >>)
          => /\ text_lines = EmptyMap
             /\ entry_points = <<reset_vector>>
    /\ (pc = "Done" /\ mapper_id = 0)
          => /\ reset_vector \in DOMAIN text_lines
             /\ MapGet(global_labels, reset_vector) = Some("RESET")

\* a session that began at reset vector 0x8001 is Done: the listing has the
\* entry of 0x8001 and 0x8001 is labelled RESET
C21_Witness ==
    /\ pc = "Done"
    /\ mapper_id = 0
    /\ reset_vector = 32769
    /\ 32769 \in DOMAIN text_lines
    /\ MapGet(global_labels, 32769) = Some("RESET")

\* every key of the map before is a key of the map after, with its value
MapGrows(before, after) ==
    \A k \in DOMAIN before : k \in DOMAIN after /\ after[k] = before[k]

\* C22: in every step of a session the listing and the three label maps keep
\* every entry they had, with its text, length or label, and no counter of
\* the labeller decreases.
C22_MonotonicPopulation ==
    [][/\ MapGrows(text_lines, text_lines')
       /\ MapGrows(labeller.branch_targets_to_labels,
                   labeller'.branch_targets_to_labels)
       /\ MapGrows(labeller.jump_targets_to_labels,
                   labeller'.jump_targets_to_labels)
       /\ MapGrows(labeller.subroutines_to_labels,
                   labeller'.subroutines_to_labels)
       /\ labeller'.next_branch_target_id >= labeller.next_branch_target_id
       /\ labeller'.next_jump_target_id >= labeller.next_jump_target_id
       /\ labeller'.next_subroutine_id >= labeller.next_subroutine_id]_vars

\* a session is Done with a branch-target label allocated and, after it, two
\* listing entries or more
C22_Witness ==
    /\ pc = "Done"
    /\ Cardinality(DOMAIN text_lines) >= 2
    /\ labeller.next_branch_target_id = 1
    /\ DOMAIN labeller.branch_targets_to_labels # {}
    /\ DecodedOpcode(1) \in BranchOpcodes

\* the positions of a line in the output of print_disassembly
PositionsOf(line) == {i \in 1 .. Len(stdout) : stdout[i] = line}

\* the pairs (role, address) registered in the labeller
RegisteredPairs ==
    UNION {{<<role, address>> :
               address \in {a \in DOMAIN LabelsOf(role) : a < 65536}} :
           role \in Roles}

DeclarationOf(pair) == LabelLine(LabelsOf(pair[1])[pair[2]], pair[2])

\* C23: print_disassembly writes the declaration line of every registered
\* (role, address) pair exactly once, and the declarations of lower addresses
\* before those of higher addresses.
C23_LabelsAllPrinted ==
    pc = "Printed"
        => /\ \A pair \in RegisteredPairs :
                 Cardinality(PositionsOf(DeclarationOf(pair))) = 1
           /\ \A p, q \in RegisteredPairs :
                 p[2] < q[2]
                    => \A i \in PositionsOf(DeclarationOf(p)),
                          j \in PositionsOf(DeclarationOf(q)) : i < j

\* the opcodes whose decode requests a label: the eight conditional
\* branches, JSR and JMP absolute
ControlTransferOpcodes == BranchOpcodes \cup {32, 76}

\* C24: a decode call on any other opcode, the indirect JMP, BRK, RTS, RTI
\* and the unsupported opcodes among them, leaves the labeller as it was (no
\* map entry, no counter advanced) and reports no destination.
C24_AllocatorFrameOfDecode ==
    [][(pc' = "Returned" /\ CalledOpcode \notin ControlTransferOpcodes)
          => /\ labeller' = labeller
             /\ labeller' = LabellerNew
             /\ ret'.address_for_later_processing = None]_vars

\* the indirect JMP was decoded: no label, no destination
C24_Witness ==
    /\ pc = "Returned"
    /\ CalledOpcode = 108
    /\ labeller = LabellerNew
    /\ ret.address_for_later_processing = None
    /\ ret.is_section_complete

\* C25: no two listing entries overlap: of two entries the lower one ends at
\* or before the address of the higher one; and print_disassembly writes the
\* text of every listing entry.
C25_ListingEntriesNeverOverlap ==
    /\ \A a, b \in DOMAIN text_lines :
          a < b => a + text_lines[a].bytes <= b
    /\ pc = "Printed"
          => \A a \in DOMAIN text_lines : PositionsOf(text_lines[a].contents) # {}

====
